---- MODULE Spec2Model ----
(***************************************************************************)
(* Model of the Monte Carlo fund-simulation engine (src/unnamed/part_002)  *)
(* and of the page that drives it (src/unnamed/part_000).                  *)
(*                                                                         *)
(* Numbers.  TLC has 32-bit integers only, so JavaScript numbers are       *)
(* modelled in two ways, each stated where it is used:                     *)
(*   - decimal fixed point (an integer and a named scale) for rates,       *)
(*     probabilities, multipliers and money, where the code's arithmetic   *)
(*     is exact in the reals;                                              *)
(*   - binary floating point with a 28-bit significand (records            *)
(*     [k, s, m, e], value s*m*2^e, with NaN and the two infinities) for   *)
(*     the IRR solver and the traction signal, where the code needs range. *)
(***************************************************************************)
EXTENDS Integers, Sequences, FiniteSets, TLC

(***************************************************************************)
(* Floating point: the JavaScript number operations the engine uses.       *)
(***************************************************************************)

\* significand width: 2^(W-1) <= m < 2^W for a non-zero finite number
W == 2 * 14
TwoW == 2^W
Limb == 2^14

\* the finite number sg * m * 2^e
Fin(sg, m, e) == [k |-> "fin", s |-> sg, m |-> m, e |-> e]
FNaN == [k |-> "nan", s |-> 1, m |-> 0, e |-> 0]
FInf(sg) == [k |-> "inf", s |-> sg, m |-> 0, e |-> 0]
FZero == Fin(1, 0, 0)
\* the zero of sign sg: JavaScript has +0 and -0
SignedZero(sg) == Fin(sg, 0, 0)

IsNaN(a) == a.k = "nan"
IsFin(a) == a.k = "fin"
IsInf(a) == a.k = "inf"

\* m * 2^j brought above 2^27 when m * 2^j < 2^(28 - j) allows the shift by j
ShiftUp(me, j) ==
  IF me[1] < 2^(W - j) THEN <<me[1] * (2^j), me[2] - j>> ELSE me

\* m brought below 2^28 by truncation, for m < 2^31
ShiftDown(me) ==
  IF me[1] >= 4 * TwoW THEN <<me[1] \div 8, me[2] + 3>>
  ELSE IF me[1] >= 2 * TwoW THEN <<me[1] \div 4, me[2] + 2>>
  ELSE IF me[1] >= TwoW THEN <<me[1] \div 2, me[2] + 1>>
  ELSE me

\* the finite number sg*m*2^e, significand brought into [2^27, 2^28) by truncation
Norm(sg, m, e) ==
  IF m = 0 THEN SignedZero(sg)
  ELSE LET Packed(me) == Fin(sg, me[1], me[2])
       IN Packed(ShiftUp(ShiftUp(ShiftUp(ShiftUp(ShiftUp(ShiftDown(<<m, e>>),
                                                         16), 8), 4), 2), 1))

FromInt(n) == Norm(IF n < 0 THEN -1 ELSE 1, IF n < 0 THEN -n ELSE n, 0)

FNeg(a) == IF IsNaN(a) THEN a ELSE [a EXCEPT !.s = -a.s]

FAbs(a) == IF IsNaN(a) THEN a ELSE [a EXCEPT !.s = 1]

\* a + b
FAdd(a, b) ==
  IF IsNaN(a) \/ IsNaN(b) THEN FNaN
  ELSE IF IsInf(a) THEN (IF IsInf(b) /\ b.s # a.s THEN FNaN ELSE a)
  ELSE IF IsInf(b) THEN b
  ELSE IF a.m = 0 /\ b.m = 0 THEN SignedZero(IF a.s = -1 /\ b.s = -1 THEN -1 ELSE 1)
  ELSE IF a.m = 0 THEN b
  ELSE IF b.m = 0 THEN a
  ELSE LET Signed(v, e) == Norm(IF v < 0 THEN -1 ELSE 1, IF v < 0 THEN -v ELSE v, e)
           \* hi has the larger exponent; lo is truncated to hi's scale
           Aligned(hi, lo) ==
             IF hi.e - lo.e > W + 1 THEN hi
             ELSE Signed(hi.s * hi.m + lo.s * (lo.m \div (2^(hi.e - lo.e))), hi.e)
       IN Aligned(IF a.e >= b.e THEN a ELSE b, IF a.e >= b.e THEN b ELSE a)

FSub(a, b) == FAdd(a, FNeg(b))

\* a * b: the top 28 bits of the 56-bit product, by 14-bit limbs
FMul(a, b) ==
  IF IsNaN(a) \/ IsNaN(b) THEN FNaN
  ELSE IF IsInf(a) \/ IsInf(b)
       THEN (IF (IsFin(a) /\ a.m = 0) \/ (IsFin(b) /\ b.m = 0) THEN FNaN
             ELSE FInf(a.s * b.s))
  ELSE IF a.m = 0 \/ b.m = 0 THEN SignedZero(a.s * b.s)
  ELSE LET Product(a1, a0, b1, b0) ==
             a1 * b1 + ((a1 * b0 + a0 * b1 + ((a0 * b0) \div Limb)) \div Limb)
       IN Norm(a.s * b.s, Product(a.m \div Limb, a.m % Limb, b.m \div Limb, b.m % Limb),
               a.e + b.e + W)

RECURSIVE DivBits(_, _, _, _)
\* long division, three quotient bits a step
DivBits(r, b, q, n) ==
  IF n = 0 THEN q
  ELSE DivBits((r * 8) % b, b, q * 8 + ((r * 8) \div b), n - 1)

\* a / b
FDiv(a, b) ==
  IF IsNaN(a) \/ IsNaN(b) THEN FNaN
  ELSE IF IsInf(a) THEN (IF IsInf(b) THEN FNaN ELSE FInf(a.s * b.s))
  ELSE IF IsInf(b) THEN SignedZero(a.s * b.s)
  ELSE IF b.m = 0 THEN (IF a.m = 0 THEN FNaN ELSE FInf(a.s * b.s))
  ELSE IF a.m = 0 THEN SignedZero(a.s * b.s)
  ELSE Norm(a.s * b.s, DivBits(a.m % b.m, b.m, a.m \div b.m, 9), a.e - b.e - 27)

\* a < b (false when either is NaN); the significands are normalised, so
\* numbers of one sign compare by exponent and then by significand
FLt(a, b) ==
  IF IsNaN(a) \/ IsNaN(b) THEN FALSE
  ELSE IF IsInf(a) THEN a.s = -1 /\ ~(IsInf(b) /\ b.s = -1)
  ELSE IF IsInf(b) THEN b.s = 1
  ELSE IF a.m = 0 THEN b.m # 0 /\ b.s = 1
  ELSE IF b.m = 0 THEN a.s = -1
  ELSE IF a.s # b.s THEN a.s = -1
  ELSE IF a.s = 1 THEN a.e < b.e \/ (a.e = b.e /\ a.m < b.m)
  ELSE b.e < a.e \/ (b.e = a.e /\ b.m < a.m)

\* Math.max(a, b)
FMax(a, b) ==
  IF IsNaN(a) \/ IsNaN(b) THEN FNaN
  ELSE IF FLt(a, b) THEN b
  ELSE IF FLt(b, a) THEN a
  ELSE IF a.s = 1 THEN a ELSE b

\* Math.min(a, b)
FMin(a, b) ==
  IF IsNaN(a) \/ IsNaN(b) THEN FNaN
  ELSE IF FLt(a, b) THEN a
  ELSE IF FLt(b, a) THEN b
  ELSE IF a.s = -1 THEN a ELSE b

FLe(a, b) == ~IsNaN(a) /\ ~IsNaN(b) /\ ~FLt(b, a)

One == Fin(1, 2^27, -27)
Two == Fin(1, 2^27, -26)
\* 0.5
Half == Fin(1, 2^27, -28)
\* 0.1
Tenth == Fin(1, 214748364, -31)
\* 0.693147181
Ln2 == Fin(1, 186065278, -28)
\* 3.14159265
Pi == Fin(1, 210828712, -26)
\* sqrt(2) * 2^27, the significand from which the mantissa is halved
SqrtTwoM == 189812531

RECURSIVE FPow(_, _)
\* Math.pow(x, t) for an integer t >= 0; Math.pow(x, 0) is 1 for every x
FPow(x, t) == IF t = 0 THEN One ELSE FMul(FPow(x, t - 1), x)

\* the decimal n/d
Dec(n, d) == FDiv(FromInt(n), FromInt(d))

\* the integer floor(a) of a finite a with |a| < 2^31
FloorInt(a) ==
  IF a.m = 0 THEN 0
  ELSE IF a.e >= 0 THEN a.s * a.m * (2^a.e)
  ELSE IF a.e < -W THEN (IF a.s = 1 THEN 0 ELSE -1)
  ELSE IF a.s = 1 THEN a.m \div (2^(-a.e))
  ELSE -((a.m + (2^(-a.e)) - 1) \div (2^(-a.e)))

\* Math.floor
FFloor(a) == IF ~IsFin(a) \/ a.e >= 0 \/ a.m = 0 THEN a ELSE FromInt(FloorInt(a))

\* Math.round: the nearest integer, a half rounds up
FRound(a) ==
  IF ~IsFin(a) \/ a.e >= 0 THEN a
  ELSE LET Rounded(r) == IF r.m = 0 THEN SignedZero(a.s) ELSE r
       IN Rounded(FFloor(FAdd(a, Half)))

RECURSIVE AtanhSeries(_, _, _, _)
\* z + z^3/3 + z^5/5 + ... from the term zn = z^n on, n odd
AtanhSeries(zn, z2, n, acc) ==
  IF n > 13 \/ IsNaN(acc) \/ IsNaN(zn) THEN acc
  ELSE AtanhSeries(FMul(zn, z2), z2, n + 2, FAdd(acc, FDiv(zn, FromInt(n))))

\* Math.log: ln(x * 2^n) = n ln 2 + ln x with x in [sqrt(1/2), sqrt(2)),
\* ln x = 2 atanh((x - 1) / (x + 1))
FLn(a) ==
  IF IsNaN(a) THEN FNaN
  ELSE IF IsInf(a) THEN (IF a.s = 1 THEN a ELSE FNaN)
  ELSE IF a.m = 0 THEN FInf(-1)
  ELSE IF a.s = -1 THEN FNaN
  ELSE LET Series(n, z) ==
             FAdd(FMul(FromInt(n), Ln2), FMul(Two, AtanhSeries(z, FMul(z, z), 1, FZero)))
           Reduced(up, x) ==
             Series(a.e + W - 1 + up, FDiv(FSub(x, One), FAdd(x, One)))
           Split(up) == Reduced(up, [a EXCEPT !.e = 1 - W - up])
       IN Split(IF a.m >= SqrtTwoM THEN 1 ELSE 0)

RECURSIVE SqrtIter(_, _, _)
SqrtIter(a, y, n) ==
  IF n = 0 \/ IsNaN(y) THEN y
  ELSE SqrtIter(a, FDiv(FAdd(y, FDiv(a, y)), Two), n - 1)

\* Math.sqrt, by Newton's iteration from a power of two
FSqrt(a) ==
  IF IsNaN(a) THEN FNaN
  ELSE IF IsInf(a) THEN (IF a.s = 1 THEN a ELSE FNaN)
  ELSE IF a.m = 0 THEN FZero
  ELSE IF a.s = -1 THEN FNaN
  ELSE SqrtIter(a, Norm(1, 1, (a.e + W) \div 2), 6)

RECURSIVE CosSeries(_, _, _, _)
\* 1 - x^2/2! + x^4/4! - ... from the term of degree n on
CosSeries(term, x2, n, acc) ==
  IF n > 16 \/ IsNaN(acc) \/ IsNaN(term) THEN acc
  ELSE CosSeries(FNeg(FDiv(FMul(term, x2), FromInt((n + 1) * (n + 2)))), x2, n + 2,
                 FAdd(acc, term))

\* Math.cos for 0 <= x < 2 pi, by reduction to [0, pi/2]
FCos(x) ==
  IF ~IsFin(x) THEN FNaN
  ELSE LET Signed(flip, c) == IF flip THEN FNeg(c) ELSE c
           Quadrant(flip, y) ==
             Signed(flip, CosSeries(One, FMul(IF flip THEN FSub(Pi, y) ELSE y,
                                              IF flip THEN FSub(Pi, y) ELSE y), 0, FZero))
           Folded(y) == Quadrant(FLt(FDiv(Pi, Two), y), y)
       IN Folded(IF FLt(Pi, x) THEN FSub(FMul(Two, Pi), x) ELSE x)

(***************************************************************************)
(* SeededRandom.  The state is the integer seed, kept as a sign and two    *)
(* 16-bit limbs (value sg * (hi * 2^16 + lo)); the products of the         *)
(* recurrence stay below 2^53, so the code's double arithmetic is exact.   *)
(***************************************************************************)

B16 == 2^16
\* NaN among the integer-valued quantities
NaNp == 0 - 2147483647

SeedOf(sg, hi, lo) == [sg |-> sg, hi |-> hi, lo |-> lo]

RECURSIVE BitLen(_)
\* the number of binary digits of n >= 0
BitLen(n) == IF n = 0 THEN 0 ELSE 1 + BitLen(n \div 2)

RECURSIVE Carry(_, _, _)
\* the number sum of q[i] * 2^(16 (i-1)) in 16-bit limbs, from limb j on with
\* the carry c coming in; the top limb is not reduced
Carry(q, j, c) ==
  IF j >= Len(q) THEN <<q[j] + c>>
  ELSE <<(q[j] + c) % B16>> \o Carry(q, j + 1, (q[j] + c) \div B16)

\* A number of four 16-bit limbs <<q0, q1, q2, q3>> (q3 the top one, not
\* reduced) as the nearest double: 53 significant bits, ties to even.
RoundDouble(q) ==
  LET \* r of the low limb lies below the unit u of the last place
      Rounded(u, r) ==
        Carry(<<q[1] - r + (IF 2 * r > u \/ (2 * r = u /\ (q[1] \div u) % 2 = 1)
                            THEN u ELSE 0), q[2], q[3], q[4]>>, 1, 0)
      Unit(u) == Rounded(u, q[1] % u)
      Dropped(n) == Unit(2^(IF n > 5 THEN n - 5 ELSE 0))
  IN Dropped(BitLen(q[4]))

\* The same step for a seed of more than 32 bits (a clock reading, whose hi
\* holds the bits above the low 16): the product and then the sum are each
\* rounded to a double before the remainder is taken.
LcgWide(seed) ==
  LET Seeded(sum) == SeedOf(1, sum[2], sum[1])
      Added(prod) ==
        Seeded(RoundDouble(Carry(<<prod[1] + 62303, prod[2] + 15470, prod[3], prod[4]>>,
                                 1, 0)))
      Multiplied(t, m) ==
        Added(RoundDouble(Carry(<<seed.lo * 26125, m * 26125 + seed.lo * 25,
                                  t * 26125 + m * 25, t * 25>>, 1, 0)))
  IN Multiplied(seed.hi \div B16, seed.hi % B16)

\* this.seed = (this.seed * 1664525 + 1013904223) % 4294967296;
\* 1664525 = 25 * 2^16 + 26125, 1013904223 = 15470 * 2^16 + 62303.
\* JavaScript's % keeps the sign of the dividend.
LcgNext(seed) ==
  IF seed.hi >= B16 THEN LcgWide(seed) ELSE
  LET Seeded(sum) == SeedOf(1, sum[2], sum[1])
      \* the remainder of a negative sum
      Negative(d1, d0) ==
        IF d1 % B16 = 0 /\ d0 % B16 = 0 THEN SeedOf(1, 0, 0)
        ELSE SeedOf(-1, d1 % B16, d0 % B16)
      \* |seed| * 1664525 = c2 * 2^32 + p1 * 2^16 + p0
      Added(p0, p1, c2) ==
        IF seed.sg = 1
        THEN Seeded(Carry(<<p0 + 62303, p1 + 15470, 0>>, 1, 0))
        ELSE IF c2 = 0 /\ (p1 < 15470 \/ (p1 = 15470 /\ p0 <= 62303))
        THEN \* the sum is 1013904223 - |seed| * 1664525 >= 0
             SeedOf(1, 15470 - p1 - (IF 62303 - p0 < 0 THEN 1 ELSE 0),
                    (62303 - p0) % B16)
        ELSE \* the sum is negative: -((|seed| * 1664525 - 1013904223) mod 2^32)
             Negative(p1 - 15470 - (IF p0 - 62303 < 0 THEN 1 ELSE 0), p0 - 62303)
      Multiplied(prod) == Added(prod[1], prod[2], prod[3])
  IN Multiplied(Carry(<<seed.lo * 26125, seed.hi * 26125 + seed.lo * 25, seed.hi * 25>>,
                      1, 0))

\* return this.seed / 4294967296, as a floating-point number
Uniform(seed) ==
  LET Signed(v) == IF seed.sg = 1 THEN v ELSE FNeg(v)
  IN Signed(FAdd(Norm(1, seed.hi, -16), Norm(1, seed.lo, -32)))

RECURSIVE ScaleU(_, _, _)
\* floor(seed / 2^32 * k * 2^j), exactly, for seed >= 0 and k < 2^15
ScaleU(seed, k, j) ==
  IF k >= 2^15 /\ k % 2 = 0 THEN ScaleU(seed, k \div 2, j + 1)
  ELSE (seed.hi * k + ((seed.lo * k) \div B16)) \div (2^(16 - j))

\* r < t / scale for the uniform draw r = seed / 2^32 and a threshold of
\* t units of 1/scale (NaNp: every comparison with NaN is false)
DrawBelow(seed, t, scale) ==
  IF t = NaNp THEN FALSE
  ELSE IF seed.sg = -1 THEN 0 <= t
  ELSE ScaleU(seed, scale, 0) < t

\* random(): the generator after the draw
random(rng) == LcgNext(rng)

\* gaussian(mean = 0, stdDev): two draws, Box-Muller; the value and the
\* generator after it.  stdDev is given in units of 1/200.
gaussian(rng, stdDev) ==
  LET BoxMuller(r1, r2) ==
        [v |-> FAdd(FMul(FMul(FSqrt(FMul(FNeg(Two), FLn(Uniform(r1)))),
                              FCos(FAbs(FMul(FMul(Two, Pi), Uniform(r2))))),
                         Dec(stdDev, 200)),
                    FZero),
         rng |-> r2]
      Second(r1) == BoxMuller(r1, random(r1))
  IN Second(random(rng))

\* Math.floor(r * n) for the draw r = seed / 2^32 and an integer n
FloorDraw(seed, n) ==
  IF n = 0 \/ (seed.hi = 0 /\ seed.lo = 0) THEN 0
  ELSE LET \* q = floor(|r * n|); exact: seed * k is a multiple of 2^32
           Floored(k, q) ==
             IF (seed.sg = 1) = (n > 0) THEN q
             ELSE IF (seed.lo * k) % B16 = 0
                     /\ (seed.hi * k + (seed.lo * k) \div B16) % B16 = 0
             THEN -q ELSE -(q + 1)
           Sized(k) == Floored(k, ScaleU(seed, k, 0))
       IN Sized(IF n < 0 THEN -n ELSE n)

\* randInt(min, max): the integer and the generator after the draw
randInt(rng, min, max) ==
  LET Drawn(r1) == [v |-> FloorDraw(r1, max - min + 1) + min, rng |-> r1]
  IN Drawn(random(rng))

(***************************************************************************)
(* Fund parameters.  A FundParams record holds integers: rates in          *)
(* hundredths (mgmtFeeRate in thousandths), money in dollars.              *)
(* Probabilities of the outcome model are exact decimals: qualityBonus in  *)
(* units of 1/QScale, fail rates in 1/RScale, branch probabilities and     *)
(* cumulative thresholds in 1/PScale.  NaNp is NaN in these quantities.    *)
(***************************************************************************)

QScale == 2 * 1000
RScale == 10 * QScale
PScale == 100 * RScale

\* Math.max and Math.min on these quantities
MaxP(a, b) == IF a = NaNp \/ b = NaNp THEN NaNp ELSE IF a >= b THEN a ELSE b
MinP(a, b) == IF a = NaNp \/ b = NaNp THEN NaNp ELSE IF a <= b THEN a ELSE b
\* a * n for an integer n
MulP(a, n) == IF a = NaNp THEN NaNp ELSE a * n
AddP(a, b) == IF a = NaNp \/ b = NaNp THEN NaNp ELSE a + b

baselineFundSize == 25000000

\* selectivityBonus = (0.25 - graduationRate) / 0.25, in 1/QScale
selectivityBonus(params) == QScale - 80 * params.graduationRate

\* followOnBonus = (followOnReservePercent - 0.20) / 0.20 * 0.5, in 1/QScale
followOnBonus(params) == 50 * params.followOnReservePercent - 1000

\* scaleBonus = Math.log(fundSize / baselineFundSize) * 0.1
scaleBonus(params) ==
  FMul(FLn(FDiv(FromInt(params.fundSize), FromInt(baselineFundSize))), Tenth)

\* a floating-point number in units of 1/QScale, to the nearest unit
Quant(a) ==
  IF IsNaN(a) THEN NaNp ELSE FloorInt(FRound(FMul(a, FromInt(QScale))))

\* qualityBonus = Math.max(-0.3, Math.min(0.5,
\*                  selectivityBonus + followOnBonus * 0.3 + scaleBonus * 0.2))
qualityBonus(params) ==
  LET \* sb = scaleBonus * 0.2
      Clamped(sb) ==
        IF IsNaN(sb) THEN NaNp
        ELSE IF IsInf(sb)
        THEN (IF sb.s = 1 THEN QScale \div 2 ELSE -((3 * QScale) \div 10))
        ELSE MaxP(-((3 * QScale) \div 10),
                  MinP(QScale \div 2,
                       selectivityBonus(params) + (followOnBonus(params) * 3) \div 10
                         + Quant(sb)))
  IN Clamped(FMul(scaleBonus(params), Dec(2, 10)))

\* discoveryFailRate = Math.min(0.85, Math.max(0.50,
\*                       (1 - discoverySuccessRate) + selectivityBonus * 0.05)), in 1/RScale
discoveryFailRate(params) ==
  MinP((85 * RScale) \div 100,
       MaxP((50 * RScale) \div 100,
            (RScale - 200 * params.discoverySuccessRate)
              + selectivityBonus(params) \div 2))

\* convictionFailRate = Math.min(0.65, Math.max(0.30,
\*                        (1 - convictionSuccessRate) - qualityBonus * 0.10)), in 1/RScale
convictionFailRate(params, qb) ==
  MinP((65 * RScale) \div 100,
       MaxP((30 * RScale) \div 100,
            AddP(RScale - 200 * params.convictionSuccessRate, MulP(qb, -1))))

\* a multiplier base b + qualityBonus * k, as a floating-point number
MultiplierBase(b, k, qb) ==
  IF qb = NaNp THEN FNaN ELSE Dec(b * QScale + k * qb, QScale)

\* calculateOutcomeParams: the probabilities in 1/PScale
calculateOutcomeParams(params) ==
  LET \* the shares of the pools that are left after the fail rates
      Shares(qb, dFail, cFail, dPool, cPool) ==
        [discoveryFailRate |-> dFail * 100,
         discoveryLowReturnRate |-> dPool * 50,
         discoveryMidReturnRate |-> dPool * 25,
         discoveryHighReturnRate |-> dPool * 15,
         discoveryOutlierRate |-> dPool * 10,
         convictionFailRate |-> MulP(cFail, 100),
         convictionLowReturnRate |-> MulP(cPool, 45),
         convictionMidReturnRate |-> MulP(cPool, 22),
         convictionGoodReturnRate |-> MulP(cPool, 15),
         convictionGreatReturnRate |-> MulP(cPool, 10),
         convictionOutlierRate |-> MulP(cPool, 5),
         convictionMegaOutlierRate |-> MulP(cPool, 3),
         qualityBonus |-> qb,
         convictionGreatMultiplierBase |-> MultiplierBase(15, 5, qb),
         convictionOutlierMultiplierBase |-> MultiplierBase(30, 15, qb),
         convictionMegaOutlierMultiplierBase |-> MultiplierBase(75, 25, qb)]
      Pools(qb, dFail, cFail) ==
        Shares(qb, dFail, cFail, RScale - dFail, AddP(RScale, MulP(cFail, -1)))
      Rates(qb) == Pools(qb, discoveryFailRate(params), convictionFailRate(params, qb))
  IN Rates(qualityBonus(params))

\* Band without a draw of its own: the branch-selection draw is used again
BandReusingDraw(rng, base, width) ==
  [v |-> FAdd(base, FMul(Uniform(rng), width)), rng |-> rng]

\* Band with the sign of the offset wrong: base - rng.random() * width
BandBelow(rng, base, width) ==
  LET Scaled(r2) == [v |-> FSub(base, FMul(Uniform(r2), width)), rng |-> r2]
  IN Scaled(random(rng))

\* base + rng.random() * width after one more draw
Band(rng, base, width) ==
  LET Scaled(r2) == [v |-> FAdd(base, FMul(Uniform(r2), width)), rng |-> r2]
  IN Scaled(random(rng))

\* sampleDiscoveryOnlyMultiple(rng, outcomeParams): the multiple and the
\* generator after the draws
sampleDiscoveryOnlyMultiple(rng, o) ==
  LET c1 == AddP(0, o.discoveryFailRate)
      c2 == AddP(c1, o.discoveryLowReturnRate)
      c3 == AddP(c2, o.discoveryMidReturnRate)
      c4 == AddP(c3, o.discoveryHighReturnRate)
      Outlier(r2) ==
        IF DrawBelow(r2, 3, 10) THEN Band(r2, FromInt(10), FromInt(10))
        ELSE Band(r2, FromInt(20), FromInt(30))
      Branch(r1) ==
        IF DrawBelow(r1, c1, PScale) THEN [v |-> FZero, rng |-> r1]
        ELSE IF DrawBelow(r1, c2, PScale) THEN Band(r1, Half, Dec(15, 10))
        ELSE IF DrawBelow(r1, c3, PScale) THEN Band(r1, Two, FromInt(3))
        ELSE IF DrawBelow(r1, c4, PScale) THEN Band(r1, FromInt(5), FromInt(5))
        ELSE Outlier(random(r1))
  IN Branch(random(rng))

\* sampleConvictionMultiple(rng, outcomeParams)
sampleConvictionMultiple(rng, o) ==
  LET c1 == AddP(0, o.convictionFailRate)
      c2 == AddP(c1, o.convictionLowReturnRate)
      c3 == AddP(c2, o.convictionMidReturnRate)
      c4 == AddP(c3, o.convictionGoodReturnRate)
      c5 == AddP(c4, o.convictionGreatReturnRate)
      c6 == AddP(c5, o.convictionOutlierRate)
      Branch(r1) ==
        IF DrawBelow(r1, c1, PScale) THEN [v |-> FZero, rng |-> r1]
        ELSE IF DrawBelow(r1, c2, PScale) THEN Band(r1, Dec(8, 10), Dec(4, 10))
        ELSE IF DrawBelow(r1, c3, PScale) THEN Band(r1, Dec(25, 10), Dec(15, 10))
        ELSE IF DrawBelow(r1, c4, PScale) THEN Band(r1, FromInt(5), FromInt(5))
        ELSE IF DrawBelow(r1, c5, PScale)
        THEN Band(r1, o.convictionGreatMultiplierBase, FromInt(10))
        ELSE IF DrawBelow(r1, c6, PScale)
        THEN Band(r1, o.convictionOutlierMultiplierBase, FromInt(20))
        ELSE Band(r1, o.convictionMegaOutlierMultiplierBase, FromInt(75))
  IN Branch(random(rng))

(***************************************************************************)
(* IRR solver: calculateIRR (Newton-Raphson) and binarySearchIRR.          *)
(* A cash-flow vector is a sequence cf of floating-point numbers; cf[t+1]  *)
(* is the code's cashFlows[t].  The solver's locals are the record         *)
(* [ph, i, rate, low, high, npvLow, res]: ph is "newton", "bisect" or      *)
(* "done", i the loop counter of the running loop.                         *)
(***************************************************************************)

maxIterations == 100
\* 1e-6
tolerance == Fin(1, 140737488, -47)
\* 0.1
guess == Tenth
\* -0.99
RateMin == Fin(-1, 265751100, -28)
\* 10
RateMax == Fin(1, 167772160, -24)
\* -0.99
BisectLow == Fin(-1, 265751100, -28)
\* 5.0
BisectHigh == Fin(1, 167772160, -25)

RECURSIVE NpvFrom(_, _, _, _)
\* npv += cashFlows[t] / Math.pow(1 + rate, t), for t = t0 .. length-1
NpvFrom(cf, rate, t, acc) ==
  IF t >= Len(cf) \/ IsNaN(acc) THEN acc
  ELSE NpvFrom(cf, rate, t + 1,
               FAdd(acc, FDiv(cf[t + 1], FPow(FAdd(One, rate), t))))

Npv(cf, rate) == NpvFrom(cf, rate, 0, FZero)

RECURSIVE DnpvFrom(_, _, _, _)
\* dnpv -= t * cashFlows[t] / Math.pow(1 + rate, t + 1), for t > 0
DnpvFrom(cf, rate, t, acc) ==
  IF t >= Len(cf) \/ IsNaN(acc) THEN acc
  ELSE DnpvFrom(cf, rate, t + 1,
                FSub(acc, FDiv(FMul(FromInt(t), cf[t + 1]),
                               FPow(FAdd(One, rate), t + 1))))

Dnpv(cf, rate) == DnpvFrom(cf, rate, 1, FZero)

IrrStart ==
  [ph |-> "newton", i |-> 0, rate |-> guess, low |-> BisectLow,
   high |-> BisectHigh, npvLow |-> FZero, res |-> FZero]

\* the clamp of the Newton update
ClampRate(newRate) ==
  IF FLt(newRate, RateMin) THEN RateMin
  ELSE IF FLt(RateMax, newRate) THEN RateMax
  ELSE newRate

\* entry of binarySearchIRR: the bracket and the same-sign test
BisectEnter(cf, st) ==
  LET Bracket(npvLow, npvHigh) ==
        IF FLt(FZero, FMul(npvLow, npvHigh))
        THEN [st EXCEPT !.ph = "done", !.res = FNaN]
        ELSE [st EXCEPT !.ph = "bisect", !.i = 0, !.low = BisectLow,
                        !.high = BisectHigh, !.npvLow = npvLow]
  IN Bracket(Npv(cf, BisectLow), Npv(cf, BisectHigh))

\* NewtonStep with the loop not counted: for (;;) in place of i < maxIterations
NewtonUncounted(cf, st) ==
  LET Iterate(npv, dnpv) ==
        IF FLt(FAbs(npv), tolerance)
        THEN [st EXCEPT !.ph = "done", !.res = st.rate]
        ELSE IF FLt(FAbs(dnpv), tolerance)
        THEN BisectEnter(cf, st)
        ELSE [st EXCEPT !.rate = ClampRate(FSub(st.rate, FDiv(npv, dnpv)))]
  IN Iterate(Npv(cf, st.rate), Dnpv(cf, st.rate))

\* one iteration of calculateIRR's loop
NewtonStep(cf, st) ==
  LET Updated(next) ==
        IF next.i >= maxIterations THEN BisectEnter(cf, next) ELSE next
      Iterate(npv, dnpv) ==
        IF FLt(FAbs(npv), tolerance)
        THEN [st EXCEPT !.ph = "done", !.res = st.rate]
        ELSE IF FLt(FAbs(dnpv), tolerance)
        THEN BisectEnter(cf, st)
        ELSE Updated([st EXCEPT !.rate = ClampRate(FSub(st.rate, FDiv(npv, dnpv))),
                                !.i = st.i + 1])
  IN Iterate(Npv(cf, st.rate), Dnpv(cf, st.rate))

\* BisectStep with the sign test reversed: npvLow * npvMid > 0 moves high
BisectSwapped(cf, st) ==
  LET Narrowed(next) ==
        IF next.i >= maxIterations
        THEN [next EXCEPT !.ph = "done", !.res = FDiv(FAdd(next.low, next.high), Two)]
        ELSE next
      Halved(mid, npvMid) ==
        IF FLt(FAbs(npvMid), tolerance)
        THEN [st EXCEPT !.ph = "done", !.res = mid]
        ELSE Narrowed(IF FLt(FZero, FMul(st.npvLow, npvMid))
                      THEN [st EXCEPT !.high = mid, !.i = st.i + 1]
                      ELSE [st EXCEPT !.low = mid, !.i = st.i + 1])
      Middle(mid) == Halved(mid, Npv(cf, mid))
  IN Middle(FDiv(FAdd(st.low, st.high), Two))

\* one iteration of binarySearchIRR's loop
BisectStep(cf, st) ==
  LET Narrowed(next) ==
        IF next.i >= maxIterations
        THEN [next EXCEPT !.ph = "done", !.res = FDiv(FAdd(next.low, next.high), Two)]
        ELSE next
      Halved(mid, npvMid) ==
        IF FLt(FAbs(npvMid), tolerance)
        THEN [st EXCEPT !.ph = "done", !.res = mid]
        ELSE Narrowed(IF FLt(FMul(st.npvLow, npvMid), FZero)
                      THEN [st EXCEPT !.high = mid, !.i = st.i + 1]
                      ELSE [st EXCEPT !.low = mid, !.i = st.i + 1])
      Middle(mid) == Halved(mid, Npv(cf, mid))
  IN Middle(FDiv(FAdd(st.low, st.high), Two))

IrrStep(cf, st) ==
  IF st.ph = "newton" THEN NewtonStep(cf, st) ELSE BisectStep(cf, st)

(***************************************************************************)
(* simulateFundOnce: the pure parts of one run.  A FundParams record holds *)
(* integers: fundSize and the check sizes in dollars, fundLife,            *)
(* mgmtFeeFullYears and targetConvictionCount as they are, mgmtFeeRate in  *)
(* thousandths, the other rates in hundredths.                             *)
(***************************************************************************)

RECURSIVE FeesFrom(_, _, _)
\* for (let year = 1; year <= fundLife; year++) totalFees += ...
FeesFrom(params, year, acc) ==
  IF year > params.fundLife \/ IsNaN(acc) THEN acc
  ELSE FeesFrom(params, year + 1,
         FAdd(acc,
              IF year <= params.mgmtFeeFullYears
              THEN FMul(Dec(params.mgmtFeeRate, 1000), FromInt(params.fundSize))
              ELSE FMul(FMul(Dec(params.mgmtFeeStepdown, 100),
                             Dec(params.mgmtFeeRate, 1000)),
                        FromInt(params.fundSize))))

totalFees(params) == FeesFrom(params, 1, FZero)

investableCapital(params) == FSub(FromInt(params.fundSize), totalFees(params))

followOnReserve(params) ==
  FMul(investableCapital(params), Dec(params.followOnReservePercent, 100))

\* deployableCapital = investableCapital - followOnReserve
deployableCapital(params) ==
  FSub(investableCapital(params), followOnReserve(params))

\* numDiscovery = Math.round(targetConvictionCount / graduationRate)
numDiscovery(params) ==
  FRound(FDiv(FromInt(params.targetConvictionCount), Dec(params.graduationRate, 100)))

\* Math.max(0.5, 1.0 - (0.25 - graduationRate) * 0.5), in units of 1/200
noiseLevel(params) ==
  IF 175 + params.graduationRate >= 100 THEN 175 + params.graduationRate ELSE 100

\* i < n for the loop counter i and a number n
CountBelow(i, n) == FLt(FromInt(i), n)

\* Array.prototype.slice(0, end) on a sequence, end a number
SliceTo(seq, end) ==
  IF IsNaN(end) THEN <<>>
  ELSE IF IsInf(end) THEN (IF end.s = 1 THEN seq ELSE <<>>)
  ELSE LET First(n) ==
             SubSeq(seq, 1, IF n < 0 THEN (IF Len(seq) + n < 0 THEN 0 ELSE Len(seq) + n)
                            ELSE IF n > Len(seq) THEN Len(seq) ELSE n)
       IN First(FloorInt(end))

RECURSIVE InsertDesc(_, _, _, _)
\* x put into the descending sequence sorted (from position j on) after
\* every element whose key is not smaller: the order of a stable sort with
\* the comparator (a, b) => key(b) - key(a)
InsertDesc(sorted, x, key, j) ==
  IF j > Len(sorted) THEN Append(sorted, x)
  ELSE IF FLt(key[sorted[j]], key[x])
  THEN SubSeq(sorted, 1, j - 1) \o <<x>> \o SubSeq(sorted, j, Len(sorted))
  ELSE InsertDesc(sorted, x, key, j + 1)

RECURSIVE SortDesc(_, _, _)
\* the indices idxs[j..] inserted one by one
SortDesc(idxs, key, acc) ==
  IF idxs = <<>> THEN acc
  ELSE SortDesc(Tail(idxs), key, InsertDesc(acc, Head(idxs), key, 1))

\* indexed.sort((a, b) => b.signal - a.signal): the indices 0 .. n-1 by signal
indexed(tractionSignals) ==
  SortDesc([j \in 1..Len(tractionSignals) |-> j - 1],
           [x \in 0..(Len(tractionSignals) - 1) |-> tractionSignals[x + 1]], <<>>)

\* cashFlows[idx]: a hole or an index past the end reads undefined, which
\* is NaN in the arithmetic that follows
ReadAt(cashFlows, idx) ==
  IF idx >= 0 /\ idx < Len(cashFlows) THEN cashFlows[idx + 1] ELSE FNaN

\* cashFlows[idx] = v: a write past the end grows the array, leaving holes
WriteAt(cashFlows, idx, v) ==
  IF idx < 0 THEN cashFlows
  ELSE [t \in 1..(IF idx + 1 > Len(cashFlows) THEN idx + 1 ELSE Len(cashFlows)) |->
          IF t = idx + 1 THEN v
          ELSE IF t <= Len(cashFlows) THEN cashFlows[t] ELSE FNaN]

RECURSIVE SumNegative(_, _, _)
\* cashFlows.filter(cf => cf < 0).reduce((a, b) => a + b, 0)
SumNegative(cashFlows, t, acc) ==
  IF t > Len(cashFlows) THEN acc
  ELSE SumNegative(cashFlows, t + 1,
                   IF FLt(cashFlows[t], FZero) THEN FAdd(acc, cashFlows[t]) ELSE acc)

\* totalCalled = -(the sum of the negative cash flows)
totalCalled(cashFlows) == FNeg(SumNegative(cashFlows, 1, FZero))

\* distribution with the discovery outcome of a conviction company credited
\* on top of its conviction outcome
distributionOfBoth(params, loc, i) ==
  IF \E j \in 1..Len(loc.convictionIndices) : loc.convictionIndices[j] = i
  THEN FAdd(FMul(FromInt(params.discoveryCheckSize + params.convictionCheckSize),
                 loc.convictionOutcomes[i]),
            FMul(FromInt(params.discoveryCheckSize), loc.discoveryOutcomes[i + 1]))
  ELSE FMul(FromInt(params.discoveryCheckSize), loc.discoveryOutcomes[i + 1])

\* the distribution of company i at its exit
distribution(params, loc, i) ==
  IF \E j \in 1..Len(loc.convictionIndices) : loc.convictionIndices[j] = i
  THEN LET \* followOnMultiple = Math.max(outcome / (2.5 + outcome * 0.1), 0)
           FollowedOn(base, outcome) ==
             FAdd(base, FMul(loc.followOnCheckSize,
                             FMax(FDiv(outcome, FAdd(Dec(25, 10), FMul(outcome, Tenth))),
                                  FZero)))
           Returned(base, outcome) ==
             IF i \in loc.followOnIndices THEN FollowedOn(base, outcome) ELSE base
           Exited(outcome) ==
             Returned(FMul(FromInt(params.discoveryCheckSize + params.convictionCheckSize),
                           outcome),
                      outcome)
       IN Exited(loc.convictionOutcomes[i])
  ELSE FMul(FromInt(params.discoveryCheckSize), loc.discoveryOutcomes[i + 1])

(***************************************************************************)
(* calculateSummary                                                        *)
(***************************************************************************)

RECURSIVE InsertAsc(_, _, _)
\* x put into the ascending sequence after every element that is not larger
InsertAsc(sorted, x, j) ==
  IF j > Len(sorted) THEN Append(sorted, x)
  ELSE IF FLt(x, sorted[j])
  THEN SubSeq(sorted, 1, j - 1) \o <<x>> \o SubSeq(sorted, j, Len(sorted))
  ELSE InsertAsc(sorted, x, j + 1)

RECURSIVE SortAsc(_, _)
\* [...values].sort((a, b) => a - b)
SortAsc(values, acc) ==
  IF values = <<>> THEN acc
  ELSE SortAsc(Tail(values), InsertAsc(acc, Head(values), 1))

\* sorted[idx]: undefined, NaN in arithmetic, outside the array
SortedAt(sorted, idx) ==
  IF idx >= 0 /\ idx < Len(sorted) THEN sorted[idx + 1] ELSE FNaN

\* percentile with the two weights exchanged
percentileSwapped(sorted, p) ==
  LET Mixed(lower, upper, weight) ==
        FAdd(FMul(SortedAt(sorted, FloorInt(lower)), weight),
             FMul(SortedAt(sorted, FloorInt(upper)), FSub(One, weight)))
      Weighted(idx, lower) == Mixed(lower, FNeg(FFloor(FNeg(idx))), FSub(idx, lower))
      Ranked(idx) == Weighted(idx, FFloor(idx))
  IN Ranked(FMul(FDiv(FromInt(p), FromInt(100)), FromInt(Len(sorted) - 1)))

\* percentile(p) over the n sorted values
percentile(sorted, p) ==
  LET Mixed(lower, upper, weight) ==
        FAdd(FMul(SortedAt(sorted, FloorInt(lower)), FSub(One, weight)),
             FMul(SortedAt(sorted, FloorInt(upper)), weight))
      Weighted(idx, lower) == Mixed(lower, FNeg(FFloor(FNeg(idx))), FSub(idx, lower))
      Ranked(idx) == Weighted(idx, FFloor(idx))
  IN Ranked(FMul(FDiv(FromInt(p), FromInt(100)), FromInt(Len(sorted) - 1)))

RECURSIVE SumOf(_, _, _)
\* values.reduce((a, b) => a + b, 0)
SumOf(values, t, acc) ==
  IF t > Len(values) \/ IsNaN(acc) THEN acc
  ELSE SumOf(values, t + 1, FAdd(acc, values[t]))

calculateSummary(values) ==
  LET Summary(sorted) ==
        [mean |-> FDiv(SumOf(values, 1, FZero), FromInt(Len(sorted))),
         p10 |-> percentile(sorted, 10),
         p25 |-> percentile(sorted, 25),
         p50 |-> percentile(sorted, 50),
         p75 |-> percentile(sorted, 75),
         p90 |-> percentile(sorted, 90),
         min |-> SortedAt(sorted, 0),
         max |-> SortedAt(sorted, Len(sorted) - 1)]
  IN Summary(SortAsc(values, <<>>))

(***************************************************************************)
(* The engine as a state machine.  runMonteCarloSimulation is invoked with *)
(* (params, numSimulations, seed); simulateFundOnce runs step by step.     *)
(***************************************************************************)

\* invocations of runMonteCarloSimulation in a behaviour
MaxCalls == 2
\* passes of the discovery loop the model follows
MaxDiscovery == 4

VARIABLES
  pc,           \* where the engine stands
  args,         \* the arguments of the running (or last) invocation
  rng,          \* the SeededRandom of the invocation
  loc,          \* the locals of the running simulateFundOnce
  cf,           \* the cash flows handed to calculateIRR
  irr,          \* the locals of calculateIRR / binarySearchIRR
  simulations,  \* the SimulationResults pushed so far
  returned,     \* what the completed invocations returned, with their arguments
  calib,        \* calibrations done: <<params, outcomeParams>> pairs
  summ          \* calculateSummary applied: its input and its result

vars == <<pc, args, rng, loc, cf, irr, simulations, returned, calib, summ>>

NoLocals == [i |-> 0]
NoArgs == [numSimulations |-> 0]

\* the locals of simulateFundOnce after lines 316-348
StartLocals(params) ==
  LET Counted(nDiscovery) ==
        [o |-> calculateOutcomeParams(params),
         followOnReserve |-> followOnReserve(params),
         numDiscovery |-> nDiscovery,
         numConviction |-> params.targetConvictionCount,
         discoveryTotal |-> FMul(nDiscovery, FromInt(params.discoveryCheckSize)),
         convictionTotal |-> FMul(FromInt(params.targetConvictionCount),
                                 FromInt(params.convictionCheckSize)),
         i |-> 0,
         discoveryOutcomes |-> <<>>,
         tractionSignals |-> <<>>,
         convictionIndices |-> <<>>,
         convictionOutcomes |-> <<>>,
         numFollowOn |-> FZero,
         followOnIndices |-> {},
         followOnCheckSize |-> FZero,
         cashFlows |-> <<>>,
         totalDistGross |-> FZero,
         carryPaid |-> FZero]
  IN Counted(numDiscovery(params))


\* no seed argument: the record that is no number (sg = 0)
Undefined == SeedOf(0, 0, 0)

\* seed || Date.now(): a seed of 0 is taken for no seed
NewSeededRandomOr(seed, now) ==
  IF seed = Undefined \/ seed = SeedOf(1, 0, 0) THEN now ELSE seed

\* new SeededRandom(seed ?? Date.now())
NewSeededRandom(seed, now) == IF seed = Undefined THEN now ELSE seed

\* runMonteCarloSimulation(params, numSimulations, seed) is entered
Call(p, n, s, now) ==
  /\ pc = "idle"
  /\ Len(returned) < MaxCalls
  /\ args' = [params |-> p, numSimulations |-> n, seed |-> s]
  /\ rng' = NewSeededRandom(s, now)
  /\ simulations' = <<>>
  /\ pc' = "loop"
  /\ UNCHANGED <<loc, cf, irr, returned, calib, summ>>

\* simulateFundOnce is entered: calibration, fees, counts (lines 316-348)
SimStart ==
  /\ pc = "loop"
  /\ Len(simulations) < args.numSimulations
  /\ loc' = StartLocals(args.params)
  /\ pc' = "discovery"
  /\ UNCHANGED <<args, rng, cf, irr, simulations, returned, calib, summ>>

\* one pass of the discovery loop (lines 350-359)
DiscoveryStep ==
  /\ pc = "discovery"
  /\ CountBelow(loc.i, loc.numDiscovery)
  /\ loc.i < MaxDiscovery
  /\ \E d \in {sampleDiscoveryOnlyMultiple(rng, loc.o)} :
       \E g \in {gaussian(d.rng, noiseLevel(args.params))} :
         \E signal \in {FAdd(FLn(FAdd(d.v, Tenth)), g.v)} :
           /\ loc' = [loc EXCEPT !.discoveryOutcomes = Append(@, d.v),
                                 !.tractionSignals = Append(@, signal),
                                 !.i = @ + 1]
           /\ rng' = g.rng
  /\ UNCHANGED <<pc, args, cf, irr, simulations, returned, calib, summ>>

\* the discovery loop is left; the top numConviction by signal (lines 362-364)
Select ==
  /\ pc = "discovery"
  /\ ~CountBelow(loc.i, loc.numDiscovery)
  /\ loc' = [loc EXCEPT !.convictionIndices =
                          SliceTo(indexed(loc.tractionSignals), FromInt(loc.numConviction)),
                        !.i = 0]
  /\ pc' = "conviction"
  /\ UNCHANGED <<args, rng, cf, irr, simulations, returned, calib, summ>>

\* one pass of the loop over convictionIndices, in insertion order (lines 368-370)
ConvictionStep ==
  /\ pc = "conviction"
  /\ loc.i < Len(loc.convictionIndices)
  /\ \E c \in {sampleConvictionMultiple(rng, loc.o)} :
       /\ loc' = [loc EXCEPT
                    !.convictionOutcomes =
                       [x \in DOMAIN @ \cup {loc.convictionIndices[loc.i + 1]} |->
                          IF x = loc.convictionIndices[loc.i + 1] THEN c.v ELSE @[x]],
                    !.i = @ + 1]
       /\ rng' = c.rng
  /\ UNCHANGED <<pc, args, cf, irr, simulations, returned, calib, summ>>


\* numFollowOn (lines 374-377)
numFollowOn(params, reserve) ==
  LET avgFollowOnCheck == FMul(FromInt(params.convictionCheckSize), Half)
      maxFollowOnByReserve == FFloor(FDiv(reserve, avgFollowOnCheck))
      maxFollowOnByPortfolio ==
        FRound(FMul(FromInt(params.targetConvictionCount),
                    Dec(30 + params.followOnReservePercent, 100)))
  IN FMin(maxFollowOnByReserve, maxFollowOnByPortfolio)

\* convictionByOutcome left unsorted: the conviction indices as selected
convictionAsSelected(l) == l.convictionIndices

\* convictionByOutcome: the conviction indices by outcome, best first
convictionByOutcome(l) ==
  SortDesc(l.convictionIndices, l.convictionOutcomes, <<>>)

\* new Array(fundLife + 1).fill(0) with the debits of years 1 to 3 (lines 388-398)
DebitedCashFlows(params, l, nFollowOn) ==
  LET \* cashFlows[year] -= amount
      Debit(cashFlows, year, amount) ==
        WriteAt(cashFlows, year, FSub(ReadAt(cashFlows, year), amount))
      FollowOn(cashFlows, half) ==
        IF FLt(FZero, nFollowOn) THEN Debit(Debit(cashFlows, 2, half), 3, half)
        ELSE cashFlows
  IN FollowOn(Debit(Debit([t \in 1..(params.fundLife + 1) |-> FZero],
                          1, l.discoveryTotal),
                    1, l.convictionTotal),
              FMul(l.followOnReserve, Half))

\* follow-on allocation and the cash-flow array (lines 374-398); new Array
\* throws a RangeError for a negative length
Allocate ==
  /\ pc = "conviction"
  /\ loc.i >= Len(loc.convictionIndices)
  /\ \E nf \in {numFollowOn(args.params, loc.followOnReserve)} :
       IF args.params.fundLife + 1 < 0
       THEN /\ pc' = "threw"
            /\ loc' = [loc EXCEPT !.numFollowOn = nf]
       ELSE /\ pc' = "exits"
            /\ loc' = [loc EXCEPT
                 !.numFollowOn = nf,
                 !.followOnIndices =
                    LET Indices(top) == {top[j] : j \in 1..Len(top)}
                    IN Indices(SliceTo(convictionByOutcome(loc), nf)),
                 !.followOnCheckSize =
                    IF FLt(FZero, nf) THEN FDiv(loc.followOnReserve, nf) ELSE FZero,
                 !.cashFlows = DebitedCashFlows(args.params, loc, nf),
                 !.i = 0]
  /\ UNCHANGED <<args, rng, cf, irr, simulations, returned, calib, summ>>

\* one pass of the exit loop (lines 403-427)
ExitStep ==
  /\ pc = "exits"
  /\ CountBelow(loc.i, loc.numDiscovery)
  /\ \E exitYear \in {randInt(rng, 4, args.params.fundLife)} :
       \E dist \in {distribution(args.params, loc, loc.i)} :
         /\ loc' = [loc EXCEPT
                      !.cashFlows = WriteAt(@, exitYear.v, FAdd(ReadAt(@, exitYear.v), dist)),
                      !.totalDistGross = FAdd(@, dist),
                      !.i = @ + 1]
         /\ rng' = exitYear.rng
  /\ UNCHANGED <<pc, args, cf, irr, simulations, returned, calib, summ>>

\* carryPaid = Math.max(profit, 0) * carry
carryPaid(params, totalDistGross, called) ==
  FMul(FMax(FSub(totalDistGross, called), FZero), Dec(params.carry, 100))

\* the metrics, and calculateIRR entered on cashFlowsNet (lines 430-443)
Metrics ==
  /\ pc = "exits"
  /\ ~CountBelow(loc.i, loc.numDiscovery)
  /\ \E paid \in {carryPaid(args.params, loc.totalDistGross, totalCalled(loc.cashFlows))} :
       /\ loc' = [loc EXCEPT !.carryPaid = paid]
       /\ cf' = WriteAt(loc.cashFlows, args.params.fundLife,
                        FSub(ReadAt(loc.cashFlows, args.params.fundLife), paid))
  /\ irr' = IrrStart
  /\ pc' = "irr"
  /\ UNCHANGED <<args, rng, simulations, returned, calib, summ>>

\* one iteration of the solver's running loop
IrrIter ==
  /\ pc = "irr"
  /\ irr.ph # "done"
  /\ irr' = IrrStep(cf, irr)
  /\ UNCHANGED <<pc, args, rng, loc, cf, simulations, returned, calib, summ>>


\* irrNet passed on as calculateIRR returned it
irrNetRaw(irrRes) == irrRes

\* irrNet: isNaN(irrNet) ? 0 : irrNet
irrNetOf(irrRes) == IF IsNaN(irrRes) THEN FZero ELSE irrRes

\* the SimulationResult returned (lines 430-458)
SimulationResult(params, l, irrRes) ==
  LET Result(called, distNet) ==
        [totalCalled |-> called,
         totalDistGross |-> l.totalDistGross,
         totalDistNet |-> distNet,
         grossTvpi |-> FDiv(l.totalDistGross, called),
         netTvpi |-> FDiv(distNet, called),
         dpiGross |-> FDiv(l.totalDistGross, called),
         dpiNet |-> FDiv(distNet, called),
         irrNet |-> irrNetOf(irrRes),
         carryPaid |-> l.carryPaid,
         discoveryOnlyCount |-> FSub(l.numDiscovery, FromInt(l.numConviction)),
         convictionCount |-> l.numConviction,
         followOnCount |-> l.numFollowOn]
  IN Result(totalCalled(l.cashFlows), FSub(l.totalDistGross, l.carryPaid))

\* calculateIRR has returned: simulateFundOnce returns, the result is pushed
SimEnd ==
  /\ pc = "irr"
  /\ irr.ph = "done"
  /\ simulations' = Append(simulations, SimulationResult(args.params, loc, irr.res))
  /\ pc' = "loop"
  /\ UNCHANGED <<args, rng, loc, cf, irr, returned, calib, summ>>

\* ProbAtLeast counting the runs below the threshold
ProbBelow(sims, x, n) ==
  FDiv(FromInt(Cardinality({j \in 1..Len(sims) : FLt(sims[j].netTvpi, x)})), FromInt(n))

\* simulations.filter(s => s.netTvpi >= x).length / numSimulations
ProbAtLeast(sims, x, n) ==
  FDiv(FromInt(Cardinality({j \in 1..Len(sims) : FLe(x, sims[j].netTvpi)})), FromInt(n))

\* the MonteCarloResults returned (lines 504-526)
MonteCarloResults(sims, params, n) ==
  [simulations |-> sims,
   summary |-> [grossTvpi |-> calculateSummary([j \in 1..Len(sims) |-> sims[j].grossTvpi]),
                netTvpi |-> calculateSummary([j \in 1..Len(sims) |-> sims[j].netTvpi]),
                dpiNet |-> calculateSummary([j \in 1..Len(sims) |-> sims[j].dpiNet]),
                irrNet |-> calculateSummary([j \in 1..Len(sims) |-> sims[j].irrNet])],
   probReturnFund |-> ProbAtLeast(sims, One, n),
   prob2x |-> ProbAtLeast(sims, Two, n),
   prob3x |-> ProbAtLeast(sims, FromInt(3), n),
   params |-> params,
   numSimulations |-> n]

\* Aggregate with the loop left after the first run
AggregateAfterOne ==
  /\ pc = "loop"
  /\ Len(simulations) >= 1
  /\ returned' = Append(returned,
                   [args |-> args,
                    results |-> MonteCarloResults(simulations, args.params,
                                                  args.numSimulations)])
  /\ pc' = "idle"
  /\ UNCHANGED <<args, rng, loc, cf, irr, simulations, calib, summ>>

\* the simulation loop is left: the summaries are computed and the call returns
Aggregate ==
  /\ pc = "loop"
  /\ Len(simulations) >= args.numSimulations
  /\ returned' = Append(returned,
                   [args |-> args,
                    results |-> MonteCarloResults(simulations, args.params,
                                                  args.numSimulations)])
  /\ pc' = "idle"
  /\ UNCHANGED <<args, rng, loc, cf, irr, simulations, calib, summ>>


(***************************************************************************)
(* The inputs the engine is driven with.                                   *)
(***************************************************************************)

\* DEFAULT_FUND_PARAMS with the fields the cases vary
FundParams(fundSize, fundLife, count, gradRate, reserve, dCheck, cCheck) ==
  [fundSize |-> fundSize, fundLife |-> fundLife, mgmtFeeRate |-> 20,
   mgmtFeeFullYears |-> 4, mgmtFeeStepdown |-> 70, carry |-> 20,
   targetConvictionCount |-> count, graduationRate |-> gradRate,
   discoveryCheckSize |-> dCheck, convictionCheckSize |-> cCheck,
   followOnReservePercent |-> reserve,
   discoverySuccessRate |-> 30, convictionSuccessRate |-> 50]

\* a small fund, the defaults scaled down
SmallFund(fundLife, count, gradRate) ==
  FundParams(250, fundLife, count, gradRate, 20, 1, 4)

\* parameters the engine is made for (fundLife >= 1, graduationRate > 0)
ValidParams ==
  {SmallFund(5, 1, 25), SmallFund(6, 2, 50), SmallFund(2, 1, 50),
   SmallFund(5, 0, 50), FundParams(25000000, 10, 1, 25, 20, 100000, 400000),
   FundParams(250, 6, 2, 50, 100, 1, 4), FundParams(250, 6, 2, 50, 20, 50, 60)}

\* parameters a caller can pass although the engine is not made for them
InvalidParams ==
  {SmallFund(5, 1, 0), SmallFund(5, 1, -50), SmallFund(0, 1, 50),
   SmallFund(-2, 1, 50)}

\* the (params, numSimulations) pairs the engine is called with
Workload ==
  {[params |-> p, numSimulations |-> 1] : p \in ValidParams \cup InvalidParams}
  \cup {[params |-> SmallFund(5, 1, 25), numSimulations |-> 2]}

Seeds == {SeedOf(1, 0, 0), SeedOf(1, 0, 3), SeedOf(1, 0, 42), Undefined}

\* readings of Date.now()
Clock == {SeedOf(1, 27313232, 26624), SeedOf(1, 27313232, 26625)}

Init ==
  /\ pc = "idle"
  /\ args = NoArgs
  /\ rng = SeedOf(1, 0, 0)
  /\ loc = NoLocals
  /\ cf = <<>>
  /\ irr = IrrStart
  /\ simulations = <<>>
  /\ returned = <<>>
  /\ calib = <<>>
  /\ summ = <<>>

Next ==
  \/ \E w \in Workload, s \in Seeds, now \in Clock :
       returned = <<>> /\ Call(w.params, w.numSimulations, s, now)
  \/ \E now \in Clock :
       returned # <<>> /\ Call(args.params, args.numSimulations, args.seed, now)
  \/ SimStart
  \/ DiscoveryStep
  \/ Select
  \/ ConvictionStep
  \/ Allocate
  \/ ExitStep
  \/ Metrics
  \/ IrrIter
  \/ SimEnd
  \/ Aggregate

Spec == Init /\ [][Next]_vars

\* the steps of a running invocation: there is no cancellation and no await,
\* an invocation entered runs on until it returns or throws
Running ==
  \/ SimStart
  \/ DiscoveryStep
  \/ Select
  \/ ConvictionStep
  \/ Allocate
  \/ ExitStep
  \/ Metrics
  \/ IrrIter
  \/ SimEnd
  \/ Aggregate

\* ENABLED <<Running>>_vars written out from the guards of the steps: the
\* engine stands inside an invocation and its next step changes the state
Runnable ==
  \/ pc \in {"loop", "conviction", "exits"}
  \/ pc = "discovery" /\ (~CountBelow(loc.i, loc.numDiscovery) \/ loc.i < MaxDiscovery)
  \/ pc = "irr" /\ (irr.ph = "done" \/ IrrStep(cf, irr) # irr)

\* Spec under weak fairness of the running invocation, WF_vars(Running) with
\* its ENABLED written out: JavaScript runs a call to completion
SpecLive ==
  Init /\ [][Next]_vars /\ ([]<>~Runnable \/ []<><<Running>>_vars)

(***************************************************************************)
(* calculateOutcomeParams on its own: one calibration, then a second one   *)
(* of the same parameters with another graduation rate.                    *)
(***************************************************************************)

FundSizes == {-250, 0, 250, baselineFundSize, 4 * baselineFundSize}
GradRates == {-50, 0, 10, 25, 50, 100}
Reserves == {20, 60}
DiscoverySuccessRates == {10, 30, 60}
ConvictionSuccessRates == {20, 50, 80}

CalibParams ==
  {[FundParams(fs, 10, 1, g, r, 1, 4) EXCEPT !.discoverySuccessRate = d,
                                              !.convictionSuccessRate = c] :
     fs \in FundSizes, g \in GradRates, r \in Reserves,
     d \in DiscoverySuccessRates, c \in ConvictionSuccessRates}

Calibration(p) == [params |-> p, outcome |-> calculateOutcomeParams(p)]

Calibrate(p) ==
  /\ calib = <<>>
  /\ calib' = <<Calibration(p)>>
  /\ UNCHANGED <<pc, args, rng, loc, cf, irr, simulations, returned, summ>>

Recalibrate(g) ==
  /\ Len(calib) = 1
  /\ calib' = Append(calib, Calibration([calib[1].params EXCEPT !.graduationRate = g]))
  /\ UNCHANGED <<pc, args, rng, loc, cf, irr, simulations, returned, summ>>

\* both samplers called on the last calibration with a generator in state s
Sample(s) ==
  /\ calib # <<>>
  /\ loc.i = 0
  /\ \E o \in {calib[Len(calib)].outcome} :
       \E d \in {sampleDiscoveryOnlyMultiple(s, o)} :
         \E c \in {sampleConvictionMultiple(s, o)} :
           loc' = [i |-> 1, before |-> s, o |-> o, discovery |-> d, conviction |-> c]
  /\ UNCHANGED <<pc, args, rng, cf, irr, simulations, returned, calib, summ>>

NextCalib ==
  \/ \E p \in CalibParams : Calibrate(p)
  \/ \E g \in GradRates : Recalibrate(g)
  \/ \E s \in {SeedOf(1, 0, 1868), SeedOf(1, 0, 1926), SeedOf(1, 0, 1938),
               SeedOf(1, 0, 1958)} : Sample(s)

SpecCalib == Init /\ [][NextCalib]_vars

(***************************************************************************)
(* calculateIRR on its own, on cash-flow vectors given from outside.       *)
(***************************************************************************)

\* a vector of n zeros followed by x
ZerosThen(n, x) == [t \in 1..(n + 1) |-> IF t <= n THEN FZero ELSE x]

CashFlowVectors ==
  {<<FromInt(-100), FZero, FZero, FZero, Dec(14641, 100)>>,
   <<FromInt(-100), FromInt(60), FromInt(60)>>,
   <<FromInt(-100), FromInt(-50)>>,
   <<FZero, FromInt(-12), Dec(-223, 10), Dec(-223, 10), FZero, FZero>>,
   <<FromInt(1000), FromInt(500)>>,
   ZerosThen(10, FromInt(1000)),
   ZerosThen(6, One),
   ZerosThen(1, Dec(-1, 100000)),
   <<FZero, FZero, FZero>>,
   <<FromInt(-100), FZero, FromInt(225)>>,
   <<FromInt(-64), FZero, FZero, FromInt(27)>>,
   <<Dec(-1, 10000000), Dec(15, 100000000)>>,
   <<Tenth, Two, Dec(-11, 10)>>,
   <<Dec(-1, 10), FromInt(-2), Dec(11, 10)>>}

InitIRR ==
  /\ pc = "irr"
  /\ cf \in CashFlowVectors
  /\ irr = IrrStart
  /\ args = NoArgs
  /\ rng = SeedOf(1, 0, 0)
  /\ loc = NoLocals
  /\ simulations = <<>>
  /\ returned = <<>>
  /\ calib = <<>>
  /\ summ = <<>>

NextIRR == IrrIter

SpecIRR == InitIRR /\ [][NextIRR]_vars

(***************************************************************************)
(* calculateSummary on its own, on small samples of whole numbers.         *)
(***************************************************************************)

MaxSample == 3
SampleValues == {-3, 0, 1, 2, 5}

Samples ==
  UNION {[1..n -> SampleValues] : n \in 1..MaxSample}
    \cup {<<1, 2, 3, 4, 5>>, <<5, 3, 1, 4, 2>>, <<2, 2, 7, 1>>}

Summarise(v) ==
  /\ summ = <<>>
  /\ \E values \in {[t \in 1..Len(v) |-> FromInt(v[t])]} :
       summ' = [values |-> values, summary |-> calculateSummary(values)]
  /\ UNCHANGED <<pc, args, rng, loc, cf, irr, simulations, returned, calib>>

NextSummary == \E v \in Samples : Summarise(v)

SpecSummary == Init /\ [][NextSummary]_vars

(***************************************************************************)
(* SeededRandom and the two samplers on their own: a generator is built    *)
(* from a seed and called a few times; loc records the last call (its      *)
(* name, the generator before it and the value it returned).               *)
(***************************************************************************)

\* calls made on one generator
MaxDraws == 3

\* the seeds a caller passes: 0, 30, 42, seeds whose first draw falls in each
\* branch of the samplers, the largest 32-bit seed, -1 and -1000
DrawSeeds ==
  {SeedOf(1, 0, 0), SeedOf(1, 0, 30), SeedOf(1, 0, 42), SeedOf(1, 0, 800),
   SeedOf(1, 0, 1300),
   SeedOf(1, 0, 1600), SeedOf(1, 0, 1800), SeedOf(1, 0, 1895), SeedOf(1, 0, 1900), SeedOf(1, 0, 1902),
   SeedOf(1, 0, 1940), SeedOf(1, 65535, 65535), SeedOf(-1, 0, 1), SeedOf(-1, 0, 1000),
   Undefined}

\* the outcome parameters the samplers are called with
DrawParams == SmallFund(5, 1, 25)

InitDraws ==
  /\ pc = "idle"
  /\ args = NoArgs
  /\ \E s \in DrawSeeds, now \in Clock : rng = NewSeededRandom(s, now)
  /\ loc = NoLocals
  /\ cf = <<>>
  /\ irr = IrrStart
  /\ simulations = <<>>
  /\ returned = <<>>
  /\ calib = <<>>
  /\ summ = <<>>

\* the call op has returned v and left the generator r
Called(op, v, r) ==
  /\ loc.i < MaxDraws
  /\ loc' = [i |-> loc.i + 1, op |-> op, before |-> rng, v |-> v]
  /\ rng' = r
  /\ UNCHANGED <<pc, args, cf, irr, simulations, returned, calib, summ>>

\* rng.random()
Random == \E r \in {random(rng)} : Called("random", Uniform(r), r)

\* rng.gaussian(0, 1)
Gaussian == \E g \in {gaussian(rng, 200)} : Called("gaussian", g.v, g.rng)

\* rng.randInt(4, 10)
RandInt == \E n \in {randInt(rng, 4, 10)} : Called("randInt", n.v, n.rng)

\* sampleDiscoveryOnlyMultiple(rng, outcomeParams)
SampleDiscovery ==
  \E d \in {sampleDiscoveryOnlyMultiple(rng, calculateOutcomeParams(DrawParams))} :
    Called("discovery", d.v, d.rng)

\* sampleConvictionMultiple(rng, outcomeParams)
SampleConviction ==
  \E c \in {sampleConvictionMultiple(rng, calculateOutcomeParams(DrawParams))} :
    Called("conviction", c.v, c.rng)

NextDraws ==
  \/ Random
  \/ Gaussian
  \/ RandInt
  \/ SampleDiscovery
  \/ SampleConviction

SpecDraws == InitDraws /\ [][NextDraws]_vars

(***************************************************************************)
(* The page (Home): the simulation controls with the stale flag, and the   *)
(* portfolio handlers.  loc holds the state of the component: its useState *)
(* values, its two refs, the pending timeout of runSimulation, the rows of *)
(* the database and the handler calls awaiting their API response.  Of the *)
(* FundParams only fundSize is edited; Number(e.target.value) of the input *)
(* yields 250, 0 or -0.  An Investment is its id, status and               *)
(* currentValuation.                                                       *)
(***************************************************************************)

MaxInvestments == 2
MaxHandlerCalls == 3

\* JSON.stringify(params): a number that is not finite is written null, and
\* -0 is written 0
JSONstringify(params) ==
  [fundSize |-> IF ~IsFin(params.fundSize) THEN FNaN
                ELSE IF params.fundSize.m = 0 THEN FZero
                ELSE params.fundSize]

\* results !== null && (lastSimParamsRef.current !== JSON.stringify(params)
\*                      || lastSimCountRef.current !== numSimulations)
isResultsStale(l) ==
  /\ l.results # <<>>
  /\ \/ l.lastSimParamsRef # <<JSONstringify(l.params)>>
     \/ l.lastSimCountRef # <<l.numSimulations>>

\* the component as mounted: the effects have called loadData, which awaits
\* fetchFund, and runSimulation, whose timeout is pending; the database holds
\* one investment
InitPage ==
  /\ pc = "page"
  /\ loc = [params |-> [fundSize |-> FromInt(25000000)],
            numSimulations |-> 5000,
            results |-> <<>>,
            isRunning |-> TRUE,
            lastSimParamsRef |-> <<>>,
            lastSimCountRef |-> <<>>,
            timeouts |-> <<[params |-> [fundSize |-> FromInt(25000000)],
                            numSimulations |-> 5000]>>,
            dbConnected |-> FALSE,
            investments |-> <<>>,
            rows |-> <<[id |-> 1, status |-> "active", currentValuation |-> 100]>>,
            created |-> 1,
            awaiting |-> {},
            calls |-> 0,
            overlapped |-> FALSE]
  /\ args = NoArgs
  /\ rng = SeedOf(1, 0, 0)
  /\ cf = <<>>
  /\ irr = IrrStart
  /\ simulations = <<>>
  /\ returned = <<>>
  /\ calib = <<>>
  /\ summ = <<>>

\* loadData once fetchFund and fetchInvestments have answered
loadData ==
  /\ ~loc.dbConnected
  /\ loc' = [loc EXCEPT !.params = [fundSize |-> FromInt(25000000)],
                        !.dbConnected = TRUE,
                        !.investments = loc.rows]
  /\ UNCHANGED <<pc, args, rng, cf, irr, simulations, returned, calib, summ>>

\* FundConfig's onChange, handleChange('fundSize', Number(e.target.value))
setParams(fundSize) ==
  /\ loc' = [loc EXCEPT !.params = [fundSize |-> fundSize]]
  /\ UNCHANGED <<pc, args, rng, cf, irr, simulations, returned, calib, summ>>

\* the select of the header
setNumSimulations(n) ==
  /\ loc' = [loc EXCEPT !.numSimulations = n]
  /\ UNCHANGED <<pc, args, rng, cf, irr, simulations, returned, calib, summ>>

\* a click on Run Simulation (disabled while isRunning): the callback of this
\* render, with its params and numSimulations, is set to run after 50 ms
runSimulation ==
  /\ ~loc.isRunning
  /\ loc' = [loc EXCEPT
       !.isRunning = TRUE,
       !.timeouts = Append(loc.timeouts, [params |-> loc.params,
                                          numSimulations |-> loc.numSimulations])]
  /\ UNCHANGED <<pc, args, rng, cf, irr, simulations, returned, calib, summ>>

\* the callback of setTimeout with the refs taken from the state of the page
\* at the time it runs
TimeoutOfNow ==
  /\ loc.timeouts # <<>>
  /\ \E run \in {Head(loc.timeouts)} :
       loc' = [loc EXCEPT
         !.results = <<[params |-> run.params, numSimulations |-> run.numSimulations]>>,
         !.lastSimParamsRef = <<JSONstringify(loc.params)>>,
         !.lastSimCountRef = <<loc.numSimulations>>,
         !.isRunning = FALSE,
         !.timeouts = Tail(loc.timeouts)]
  /\ UNCHANGED <<pc, args, rng, cf, irr, simulations, returned, calib, summ>>

\* the callback of setTimeout in runSimulation: the results of
\* runMonteCarloSimulation carry the params and numSimulations they were
\* computed with
Timeout ==
  /\ loc.timeouts # <<>>
  /\ \E run \in {Head(loc.timeouts)} :
       loc' = [loc EXCEPT
         !.results = <<[params |-> run.params, numSimulations |-> run.numSimulations]>>,
         !.lastSimParamsRef = <<JSONstringify(run.params)>>,
         !.lastSimCountRef = <<run.numSimulations>>,
         !.isRunning = FALSE,
         !.timeouts = Tail(loc.timeouts)]
  /\ UNCHANGED <<pc, args, rng, cf, irr, simulations, returned, calib, summ>>

NextStale ==
  \/ loadData
  \/ \E fundSize \in {FromInt(250), FZero, SignedZero(-1)} : setParams(fundSize)
  \/ \E n \in {1000, 5000} : setNumSimulations(n)
  \/ runSimulation
  \/ Timeout

SpecStale == InitPage /\ [][NextStale]_vars

\* the investments after the setInvestments of a handler: the list the handler
\* closed over with the new row put first, with the investment id replaced
\* by its changed row, or with the investment id filtered out; changed holds
\* the new row, or the changed row of every investment of the list
Applied(handler, id, investments, changed) ==
  LET Kept(inv) == inv.id # id
  IN CASE handler = "add" -> changed \o investments
       [] handler = "delete" -> SelectSeq(investments, Kept)
       [] OTHER -> [k \in 1..Len(investments) |->
                      IF investments[k].id = id THEN changed[k]
                      ELSE investments[k]]

\* a call of handleAddInvestment, handleUpdateInvestment (to status
\* graduated), handleDeleteInvestment or handleAddValuation (of 200) from the
\* Portfolio as rendered: with the database connected the handler awaits its
\* API request, keeping the investments of this render; without, it applies
\* the change to them at once
Handle(handler, id) ==
  LET Local(inv) ==
        IF handler = "update" THEN [inv EXCEPT !.status = "graduated"]
        ELSE [inv EXCEPT !.currentValuation = 200]
      Added == [id |-> 0 - (loc.calls + 1), status |-> "active", currentValuation |-> 100]
      Set == IF handler = "add" THEN <<Added>>
             ELSE [k \in 1..Len(loc.investments) |-> Local(loc.investments[k])]
  IN /\ loc.calls < MaxHandlerCalls
     /\ IF handler = "add" THEN id = 0
        ELSE \E k \in 1..Len(loc.investments) : loc.investments[k].id = id
     /\ loc' =
          IF loc.dbConnected
          THEN [loc EXCEPT
                  !.calls = loc.calls + 1,
                  !.overlapped = loc.overlapped \/ loc.awaiting # {},
                  !.awaiting = loc.awaiting \cup
                     {[handler |-> handler, id |-> id, call |-> loc.calls,
                       investments |-> loc.investments]}]
          ELSE [loc EXCEPT
                  !.calls = loc.calls + 1,
                  !.investments = Applied(handler, id, loc.investments, Set)]
     /\ UNCHANGED <<pc, args, rng, cf, irr, simulations, returned, calib, summ>>

\* the API request of an awaiting handler is served and the handler resumes:
\* the database inserts, updates or deletes the row, and the handler sets the
\* investments from the list it closed over (from fetchInvestments after a
\* valuation); an update or valuation of a row that is gone fails and falls
\* back to the local change
Settle(h) ==
  LET Inserted == [id |-> loc.created + 1, status |-> "active", currentValuation |-> 100]
      Changed(inv) ==
        IF h.handler = "update" THEN [inv EXCEPT !.status = "graduated"]
        ELSE [inv EXCEPT !.currentValuation = 200]
      Each(list) ==
        IF h.handler = "add" THEN <<Inserted>>
        ELSE [k \in 1..Len(list) |-> Changed(list[k])]
      Found == \E k \in 1..Len(loc.rows) : loc.rows[k].id = h.id
      Stored == Changed(CHOOSE r \in {loc.rows[k] : k \in 1..Len(loc.rows)} : r.id = h.id)
      Served(rows) ==
        [loc EXCEPT
           !.awaiting = loc.awaiting \ {h},
           !.rows = rows,
           !.created = IF h.handler = "add" THEN loc.created + 1 ELSE loc.created,
           !.investments =
              IF h.handler = "update" /\ Found
              THEN Applied("update", h.id, h.investments,
                           [k \in 1..Len(h.investments) |-> Stored])
              ELSE IF h.handler = "valuation" /\ Found THEN rows
              ELSE Applied(h.handler, h.id, h.investments, Each(h.investments))]
  IN /\ h \in loc.awaiting
     /\ h.handler = "add" => loc.created < MaxInvestments + 1
     /\ loc' = Served(Applied(h.handler, h.id, loc.rows, Each(loc.rows)))
     /\ UNCHANGED <<pc, args, rng, cf, irr, simulations, returned, calib, summ>>

NextPortfolio ==
  \/ loadData
  \/ \E handler \in {"add", "update", "delete", "valuation"} :
       \E id \in 0..(MaxInvestments + 1) : Handle(handler, id)
  \/ \E h \in loc.awaiting : Settle(h)

SpecPortfolio == InitPage /\ [][NextPortfolio]_vars

(***************************************************************************)
(* The properties.                                                         *)
(***************************************************************************)

\* C1: two completed invocations of runMonteCarloSimulation with the same
\* params, numSimulations and integer seed returned identical
\* MonteCarloResults (simulations in order, summaries, probabilities).
C1_Deterministic ==
  \A a, b \in 1..Len(returned) :
    (returned[a].args = returned[b].args /\ returned[a].args.seed # Undefined)
      => returned[a].results = returned[b].results

\* C1 witness: two invocations with the same seeded arguments have returned,
\* and the run drew outcomes that paid something out.
C1_Witness ==
  /\ Len(returned) = 2
  /\ returned[1].args = returned[2].args
  /\ returned[1].args.seed # Undefined
  /\ returned[1].results = returned[2].results
  /\ \E j \in 1..Len(returned[1].results.simulations) :
       LET d == returned[1].results.simulations[j].totalDistGross
       IN IsFin(d) /\ d.m # 0

\* the sum of the probabilities of a branch family (NaN if one of them is)
SumP(ps) ==
  IF \E j \in 1..Len(ps) : ps[j] = NaNp THEN NaNp
  ELSE LET RECURSIVE Sum(_)
           Sum(j) == IF j = 0 THEN 0 ELSE ps[j] + Sum(j - 1)
       IN Sum(Len(ps))

discoveryRates(o) ==
  <<o.discoveryFailRate, o.discoveryLowReturnRate, o.discoveryMidReturnRate,
    o.discoveryHighReturnRate, o.discoveryOutlierRate>>

convictionRates(o) ==
  <<o.convictionFailRate, o.convictionLowReturnRate, o.convictionMidReturnRate,
    o.convictionGoodReturnRate, o.convictionGreatReturnRate,
    o.convictionOutlierRate, o.convictionMegaOutlierRate>>

\* C2: for any FundParams, the discovery-branch probabilities returned by
\* calculateOutcomeParams sum to 1, and so do the conviction-branch ones.
C2_SumToOne ==
  \A j \in 1..Len(calib) :
    /\ SumP(discoveryRates(calib[j].outcome)) = PScale
    /\ SumP(convictionRates(calib[j].outcome)) = PScale

\* C2 restricted to a fund size that is not negative
C2_SumToOneSized ==
  \A j \in 1..Len(calib) :
    calib[j].params.fundSize >= 0 =>
      /\ SumP(discoveryRates(calib[j].outcome)) = PScale
      /\ SumP(convictionRates(calib[j].outcome)) = PScale

\* a and b are numbers and a is within tol * max(1, |b|) of b
Near(a, b, tol) ==
  /\ IsFin(a)
  /\ IsFin(b)
  /\ FLe(FAbs(FSub(a, b)), FMul(tol, FMax(One, FAbs(b))))

\* the capital the claim says was called in the run whose locals are l
DebitsScheduled(l) ==
  FAdd(FAdd(l.discoveryTotal, l.convictionTotal),
       IF FLt(FZero, l.numFollowOn) THEN l.followOnReserve ELSE FZero)

\* C3: in every run of simulateFundOnce, totalCalled equals the year-1 debit
\* (numDiscovery x discoveryCheckSize + numConviction x convictionCheckSize)
\* plus the full follow-on reserve when numFollowOn > 0, else nothing.
C3_TotalCalled ==
  pc = "irr" =>
    Near(totalCalled(loc.cashFlows), DebitsScheduled(loc), Dec(1, 1000000))

\* C3 restricted to a fund life that holds the years 1 to 4 and a positive
\* graduation rate
C3_TotalCalledLong ==
  (pc = "irr" /\ args.params.fundLife >= 4 /\ args.params.graduationRate > 0) =>
    Near(totalCalled(loc.cashFlows), DebitsScheduled(loc), Dec(1, 1000000))

\* lo <= x <= hi, false of NaN
InRange(x, lo, hi) == FLe(lo, x) /\ FLe(x, hi)

\* C4: calculateIRR returns NaN or a rate inside the search bounds: the
\* Newton iterate is within [-0.99, 10] after every update, and the bracket
\* of the bisection fallback, hence its value, is within [-0.99, 5.0].
C4_WithinBounds ==
  pc = "irr" =>
    /\ InRange(irr.rate, RateMin, RateMax)
    /\ InRange(irr.low, BisectLow, BisectHigh)
    /\ InRange(irr.high, BisectLow, BisectHigh)
    /\ irr.ph = "done" => (IsNaN(irr.res) \/ InRange(irr.res, RateMin, RateMax))

\* C4, the returned value only
C4_ResultWithinBounds ==
  (pc = "irr" /\ irr.ph = "done") =>
    (IsNaN(irr.res) \/ InRange(irr.res, RateMin, RateMax))

\* some entry is not zero, and the non-zero entries all have the sign sg
OneSigned(flows, sg) ==
  /\ \E t \in 1..Len(flows) : IsFin(flows[t]) /\ flows[t].m # 0
  /\ \A t \in 1..Len(flows) :
       IsFin(flows[t]) /\ (flows[t].m = 0 \/ flows[t].s = sg)

\* C5: for a cash-flow vector whose non-zero entries are all negative, or
\* all positive, calculateIRR returns NaN and the run reports irrNet = 0.
C5_NoSolution ==
  (pc = "irr" /\ irr.ph = "done" /\ (OneSigned(cf, 1) \/ OneSigned(cf, -1))) =>
    (IsNaN(irr.res) /\ irrNetOf(irr.res) = FZero)

\* C5 for the vector <<0, 0, 0, 0, 0, 0, 0, 0, 0, 0, 1000>> alone
C5_NoSolutionLatePayout ==
  (pc = "irr" /\ irr.ph = "done" /\ cf = ZerosThen(10, FromInt(1000))) =>
    IsNaN(irr.res)

\* C6: the irrNet of every SimulationResult, pushed or returned, is a number,
\* never NaN; a run whose solver reported no solution was completed with 0.
C6_IrrNetNumber ==
  /\ \A j \in 1..Len(simulations) : ~IsNaN(simulations[j].irrNet)
  /\ \A a \in 1..Len(returned) :
       \A j \in 1..Len(returned[a].results.simulations) :
         ~IsNaN(returned[a].results.simulations[j].irrNet)
  /\ (pc = "loop" /\ simulations # <<>> /\ IsNaN(irr.res)) =>
       simulations[Len(simulations)].irrNet = FZero

\* C6 witness: the solver returned NaN, and the run was pushed with irrNet 0
C6_Witness ==
  /\ pc = "loop"
  /\ simulations # <<>>
  /\ irr.ph = "done"
  /\ IsNaN(irr.res)
  /\ simulations[Len(simulations)].irrNet = FZero

\* the k-th smallest of the whole numbers v (k from 1)
OrderStat(v, k) ==
  CHOOSE x \in {v[t] : t \in 1..Len(v)} :
    /\ Cardinality({t \in 1..Len(v) : v[t] < x}) < k
    /\ k <= Cardinality({t \in 1..Len(v) : v[t] <= x})

\* 100 times the linear interpolation between the order statistics that
\* bracket the rank p / 100 * (n - 1)
Interpolated100(v, p) ==
  LET num == p * (Len(v) - 1)
      lo == num \div 100
      fr == num % 100
      hi == IF fr = 0 THEN lo ELSE lo + 1
  IN OrderStat(v, lo + 1) * (100 - fr) + OrderStat(v, hi + 1) * fr

\* the percentile fields of a SimulationSummary
PercentileFields(sm) ==
  {<<10, sm.p10>>, <<25, sm.p25>>, <<50, sm.p50>>, <<75, sm.p75>>, <<90, sm.p90>>}

\* C7: for a non-empty sample, each percentile of calculateSummary is the
\* linear interpolation between the two bracketing order statistics of the
\* ascending sample at rank p / 100 * (n - 1); the 0th percentile is the
\* minimum, the 100th the maximum, and p50 of [1,2,3,4,5] is 3.
C7_Percentile ==
  summ # <<>> =>
    LET v == [t \in 1..Len(summ.values) |-> FloorInt(summ.values[t])]
        sorted == SortAsc(summ.values, <<>>)
    IN /\ \A f \in PercentileFields(summ.summary) :
            Near(FMul(f[2], FromInt(100)), FromInt(Interpolated100(v, f[1])),
                 Dec(1, 1000000))
       /\ percentile(sorted, 0) = FromInt(OrderStat(v, 1))
       /\ percentile(sorted, 0) = summ.summary.min
       /\ percentile(sorted, 100) = FromInt(OrderStat(v, Len(v)))
       /\ percentile(sorted, 100) = summ.summary.max
       /\ v = <<1, 2, 3, 4, 5>> => summ.summary.p50 = FromInt(3)

\* C7 witness: the summary of the unsorted sample 5, 3, 1, 4, 2: p50 is 3
\* and p10 lies strictly between the two smallest values
C7_Witness ==
  /\ summ # <<>>
  /\ summ.values = [t \in 1..5 |-> FromInt(<<5, 3, 1, 4, 2>>[t])]
  /\ summ.summary.p50 = FromInt(3)
  /\ FLt(One, summ.summary.p10)
  /\ FLt(summ.summary.p10, Two)

\* a >= b, false when one of them is NaN
GeP(a, b) == a # NaNp /\ b # NaNp /\ a >= b

\* C8: with every other field fixed, of two graduation rates g1 < g2 the
\* qualityBonus calibrated for g1 is at least the one calibrated for g2.
C8_Monotone ==
  Len(calib) = 2 =>
    /\ calib[1].params.graduationRate < calib[2].params.graduationRate =>
         GeP(calib[1].outcome.qualityBonus, calib[2].outcome.qualityBonus)
    /\ calib[2].params.graduationRate < calib[1].params.graduationRate =>
         GeP(calib[2].outcome.qualityBonus, calib[1].outcome.qualityBonus)

\* C8 restricted to a fund size that is not negative
C8_MonotoneSized ==
  (Len(calib) = 2 /\ calib[1].params.fundSize >= 0) =>
    /\ calib[1].params.graduationRate < calib[2].params.graduationRate =>
         GeP(calib[1].outcome.qualityBonus, calib[2].outcome.qualityBonus)
    /\ calib[2].params.graduationRate < calib[1].params.graduationRate =>
         GeP(calib[2].outcome.qualityBonus, calib[1].outcome.qualityBonus)

\* lo <= a <= hi in 1/PScale, false of NaN
InP(a, lo, hi) == a # NaNp /\ lo <= a /\ a <= hi

\* C9: for any FundParams the calibrated discoveryFailRate lies in
\* [0.50, 0.85] and the calibrated convictionFailRate in [0.30, 0.65].
C9_FailRateClamps ==
  \A j \in 1..Len(calib) :
    /\ InP(calib[j].outcome.discoveryFailRate, PScale \div 2, (85 * PScale) \div 100)
    /\ InP(calib[j].outcome.convictionFailRate,
           (30 * PScale) \div 100, (65 * PScale) \div 100)

\* C9, the discovery clamp only
C9_DiscoveryClamp ==
  \A j \in 1..Len(calib) :
    InP(calib[j].outcome.discoveryFailRate, PScale \div 2, (85 * PScale) \div 100)

\* C9 restricted to a fund size that is not negative
C9_FailRateClampsSized ==
  \A j \in 1..Len(calib) :
    calib[j].params.fundSize >= 0 =>
      InP(calib[j].outcome.convictionFailRate,
          (30 * PScale) \div 100, (65 * PScale) \div 100)

\* graduationRate <= 0 or fundLife <= 0
InvalidFundParams(p) == p.graduationRate <= 0 \/ p.fundLife <= 0

\* C10: with invalid Fund Parameters the engine stops at calibration time:
\* it draws no sample, goes no further than the entry of the discovery loop,
\* pushes no SimulationResult and returns no MonteCarloResults.
C10_FailFast ==
  /\ (pc # "idle" /\ InvalidFundParams(args.params)) =>
       /\ pc \in {"loop", "discovery"}
       /\ pc = "discovery" => loc.i = 0
       /\ simulations = <<>>
  /\ \A a \in 1..Len(returned) : ~InvalidFundParams(returned[a].args.params)

\* C10, the part on the results: no result returned for invalid Fund
\* Parameters holds a NaN or an infinite TVPI
C10_NoNaNReturned ==
  \A a \in 1..Len(returned) :
    InvalidFundParams(returned[a].args.params) =>
      \A j \in 1..Len(returned[a].results.simulations) :
        IsFin(returned[a].results.simulations[j].netTvpi)

\* C10, the part on the loop: with invalid Fund Parameters the discovery
\* loop is not still running after MaxDiscovery passes
C10_LoopEnds ==
  (pc = "discovery" /\ InvalidFundParams(args.params) /\ loc.i >= MaxDiscovery) =>
    ~CountBelow(loc.i, loc.numDiscovery)

\* the seed is an integer in [0, 2^32)
InStateRange(seed) ==
  seed.sg = 1 /\ 0 <= seed.hi /\ seed.hi < B16 /\ 0 <= seed.lo /\ seed.lo < B16

\* the two 16-bit limbs <<low, high>> of seed mod 2^32, the mathematical
\* remainder (never negative)
Mod32(seed) ==
  IF seed.sg = 1 THEN <<seed.lo, seed.hi % B16>>
  ELSE <<(B16 - seed.lo) % B16,
         (B16 - (seed.hi % B16) - (IF seed.lo = 0 THEN 0 ELSE 1)) % B16>>

\* (seed * 1664525 + 1013904223) mod 2^32, in exact integer arithmetic
LcgExact(seed) ==
  LET Stepped(x) ==
        SeedOf(1, (x[2] * 26125 + x[1] * 25 + 15470
                     + ((x[1] * 26125 + 62303) \div B16)) % B16,
               (x[1] * 26125 + 62303) % B16)
  IN Stepped(Mod32(seed))

RECURSIVE LcgExactSteps(_, _)
LcgExactSteps(seed, k) ==
  IF k = 0 THEN seed ELSE LcgExactSteps(LcgExact(seed), k - 1)

\* C11: after every call of random(), gaussian() or randInt() (and of the
\* samplers, which draw through random()) the state of the generator is an
\* integer in [0, 2^32) that follows from the state before the call by the
\* recurrence seed' = (seed * 1664525 + 1013904223) mod 2^32, applied once
\* per draw; the value random() returns is seed' / 2^32 and lies in [0, 1).
C11_LcgState ==
  loc.i > 0 =>
    /\ InStateRange(rng)
    /\ \E k \in 1..3 : rng = LcgExactSteps(loc.before, k)
    /\ loc.op = "random" =>
         /\ rng = LcgExact(loc.before)
         /\ loc.v = Uniform(rng)
         /\ FLe(FZero, loc.v)
         /\ FLt(loc.v, One)

\* C11 for a generator whose state before the call is in [0, 2^32)
C11_LcgStateUnsigned ==
  (loc.i > 0 /\ InStateRange(loc.before)) =>
    /\ InStateRange(rng)
    /\ \E k \in 1..3 : rng = LcgExactSteps(loc.before, k)
    /\ loc.op = "random" =>
         /\ rng = LcgExact(loc.before)
         /\ loc.v = Uniform(rng)
         /\ FLe(FZero, loc.v)
         /\ FLt(loc.v, One)

\* C11, the range of the state only
C11_StateInRange == loc.i > 0 => InStateRange(rng)

RECURSIVE LcgSteps(_, _)
\* the generator after k draws
LcgSteps(seed, k) == IF k = 0 THEN seed ELSE LcgSteps(random(seed), k - 1)

\* the number of draws that lead from the generator before to the generator
\* after (0: more than four)
Draws(before, after) ==
  IF \E k \in 1..4 : LcgSteps(before, k) = after
  THEN CHOOSE k \in 1..4 :
         /\ LcgSteps(before, k) = after
         /\ \A j \in 1..(k - 1) : LcgSteps(before, j) # after
  ELSE 0

\* the last call was one of a sampler
SamplerCalled == loc.i > 0 /\ loc.op \in {"discovery", "conviction"}

\* the multiple the last call returned is one of the discovery outlier path
\* (10x and more)
DiscoveryOutlier == loc.op = "discovery" /\ FLe(FromInt(10), loc.v)

\* C12: every call of sampleDiscoveryOnlyMultiple and of
\* sampleConvictionMultiple consumes exactly two draws, on every branch,
\* except the discovery outlier path, which consumes three.
C12_TwoDraws ==
  SamplerCalled =>
    Draws(loc.before, rng) = (IF DiscoveryOutlier THEN 3 ELSE 2)

\* C12 amended: a call that takes the fail branch (it returns 0) consumes
\* one draw, the branch selection alone; a call on the discovery outlier
\* path consumes three; every other call consumes two.
C12_DrawsByBranch ==
  SamplerCalled =>
    Draws(loc.before, rng) =
      (IF loc.v = FZero THEN 1 ELSE IF DiscoveryOutlier THEN 3 ELSE 2)

\* C12 witness: a call of sampleDiscoveryOnlyMultiple on the outlier path
\* that consumed three draws, made on a generator that a call of one draw
\* (random(), randInt() or a sampler call on the fail branch) had advanced
C12_Witness ==
  /\ SamplerCalled
  /\ DiscoveryOutlier
  /\ Draws(loc.before, rng) = 3
  /\ \E s \in DrawSeeds : s # Undefined /\ random(s) = loc.before

\* what a completed invocation returned: numSimulations results, and the
\* arguments echoed
EchoesArguments(r) ==
  /\ Len(r.results.simulations) = r.args.numSimulations
  /\ r.results.params = r.args.params
  /\ r.results.numSimulations = r.args.numSimulations

\* a step of a running invocation: the generator is the one the invocation
\* built, advanced by draws only and by nothing between two runs; a run that
\* ends is pushed behind the runs before it; the call returns the runs pushed
OneStreamStep ==
  pc # "idle" =>
    /\ rng' = rng \/ \E k \in 1..5 : rng' = LcgSteps(rng, k)
    /\ (pc \in {"loop", "irr"}) => rng' = rng
    /\ simulations' = simulations
         \/ (pc = "irr" /\ Len(simulations') = Len(simulations) + 1
             /\ SubSeq(simulations', 1, Len(simulations)) = simulations)
    /\ pc' = "idle" =>
         /\ Len(returned') = Len(returned) + 1
         /\ returned'[Len(returned')].results.simulations = simulations
         /\ returned'[Len(returned')].args = args

\* C13: runMonteCarloSimulation runs simulateFundOnce exactly numSimulations
\* times on one SeededRandom that is never re-seeded (a run starts with the
\* generator the run before it left); the simulations returned are the
\* numSimulations runs in run order, and params and numSimulations are
\* echoed unchanged.
C13_OneStream ==
  /\ [](/\ \A a \in 1..Len(returned) : EchoesArguments(returned[a])
        /\ pc # "idle" => Len(simulations) <= args.numSimulations)
  /\ [][OneStreamStep]_vars

\* C13 witness: an invocation with numSimulations = 2 has returned two runs
\* that differ (the second run went on in the stream) and its arguments
C13_Witness ==
  /\ returned # <<>>
  /\ returned[1].args.numSimulations = 2
  /\ EchoesArguments(returned[1])
  /\ returned[1].results.simulations[1] # returned[1].results.simulations[2]

\* the number of runs whose netTvpi is a number not below x
RunsAtLeast(sims, x) ==
  Cardinality({j \in 1..Len(sims) :
                 ~IsNaN(sims[j].netTvpi) /\ ~FLt(sims[j].netTvpi, x)})

\* the fraction count / n of the runs
Fraction(count, n) == FDiv(FromInt(count), FromInt(n))

\* C14: for numSimulations >= 1, probReturnFund, prob2x and prob3x are the
\* numbers of runs with netTvpi >= 1.0, 2.0 and 3.0 divided by
\* numSimulations; each lies in [0, 1] and prob3x <= prob2x <= probReturnFund.
C14_ThresholdFractions ==
  \A a \in 1..Len(returned) :
    returned[a].args.numSimulations >= 1 =>
      LET r == returned[a].results
      IN /\ r.probReturnFund = Fraction(RunsAtLeast(r.simulations, One), r.numSimulations)
         /\ r.prob2x = Fraction(RunsAtLeast(r.simulations, Two), r.numSimulations)
         /\ r.prob3x = Fraction(RunsAtLeast(r.simulations, FromInt(3)), r.numSimulations)
         /\ InRange(r.probReturnFund, FZero, One)
         /\ InRange(r.prob2x, FZero, One)
         /\ InRange(r.prob3x, FZero, One)
         /\ FLe(r.prob3x, r.prob2x)
         /\ FLe(r.prob2x, r.probReturnFund)

\* C14 witness: of two runs returned one reached a net TVPI of 1.0 and none
\* reached 3.0: probReturnFund is 0.5 and prob3x is 0
C14_Witness ==
  \E a \in 1..Len(returned) :
    /\ returned[a].args.numSimulations = 2
    /\ returned[a].results.probReturnFund = Half
    /\ returned[a].results.prob3x = FZero

\* two-flow series: an outflow -P at the first index, an inflow
\* P x (1 + r)^n at index n, with the rate r they were built from
TwoFlowCases ==
  {[flows |-> <<FromInt(-100), FZero, FZero, FZero, Dec(14641, 100)>>, r |-> Tenth],
   [flows |-> <<FromInt(-100), FZero, FromInt(225)>>, r |-> Half],
   [flows |-> <<FromInt(-64), FZero, FZero, FromInt(27)>>, r |-> Dec(-25, 100)],
   [flows |-> <<Dec(-1, 10000000), Dec(15, 100000000)>>, r |-> Half]}

\* the solver has returned a number within 1e-4 of r
Recovered(r) == IsFin(irr.res) /\ FLe(FAbs(FSub(irr.res, r)), Dec(1, 10000))

\* C15: for a two-flow series with one outflow -P at the first index and one
\* inflow P x (1 + r)^n at index n, calculateIRR returns a rate within 1e-4
\* of r.
C15_RoundTrip ==
  (pc = "irr" /\ irr.ph = "done") =>
    \A c \in TwoFlowCases : cf = c.flows => Recovered(c.r)

\* C15 for outflows of at least 1: the rate is recovered
C15_RoundTripSized ==
  (pc = "irr" /\ irr.ph = "done") =>
    \A c \in TwoFlowCases :
      (cf = c.flows /\ FLe(One, FAbs(cf[1]))) => Recovered(c.r)

\* the spec's example <<-100, 0, 0, 0, 146.41>> has returned a rate within
\* 1e-4 of 0.10
C15_Example ==
  /\ pc = "irr"
  /\ irr.ph = "done"
  /\ cf = <<FromInt(-100), FZero, FZero, FZero, Dec(14641, 100)>>
  /\ Recovered(Tenth)

\* an invocation with valid FundParams and numSimulations >= 1 is running
ValidCall ==
  /\ pc # "idle"
  /\ args.params.graduationRate > 0
  /\ args.params.fundLife >= 1
  /\ args.numSimulations >= 1

\* the invocation has returned a MonteCarloResults holding all its runs
ReturnedWhole ==
  /\ pc = "idle"
  /\ returned # <<>>
  /\ returned[Len(returned)].args = args
  /\ Len(returned[Len(returned)].results.simulations) = args.numSimulations

\* no loop counter of a valid invocation is beyond its bound
LoopsBounded ==
  ValidCall =>
    /\ Len(simulations) <= args.numSimulations
    /\ pc \in {"discovery", "exits"} => ~FLt(loc.numDiscovery, FromInt(loc.i))
    /\ pc = "conviction" => loc.i <= Len(loc.convictionIndices)
    /\ pc = "irr" => irr.i <= maxIterations

\* a result appears only when a return hands over all the runs at once
WholeResultStep ==
  (ValidCall /\ returned' # returned) =>
    /\ pc = "loop"
    /\ pc' = "idle"
    /\ Len(simulations) = args.numSimulations
    /\ Len(returned') = Len(returned) + 1
    /\ returned'[Len(returned')].results.simulations = simulations

\* C16: for valid FundParams (graduationRate > 0, fundLife >= 1) and
\* numSimulations >= 1, runMonteCarloSimulation terminates and returns a
\* complete MonteCarloResults: every loop is bounded, and no partial result
\* is ever exposed.
C16_Terminates ==
  /\ ValidCall ~> ReturnedWhole
  /\ []LoopsBounded
  /\ [][WholeResultStep]_vars

\* C16 witness: a valid invocation has returned whose solver went through all
\* maxIterations Newton iterations and all maxIterations bisection steps
C16_Witness ==
  /\ ReturnedWhole
  /\ args.params.graduationRate > 0
  /\ args.params.fundLife >= 1
  /\ args.numSimulations >= 1
  /\ irr.ph = "done"
  /\ irr.i = maxIterations

\* the quality bonus of o is within [-0.3, 0.5] and its three multiplier
\* bases are within [13.5, 17.5], [25.5, 37.5] and [67.5, 87.5]
BasesBounded(o) ==
  /\ o.qualityBonus # NaNp
  /\ -((3 * QScale) \div 10) <= o.qualityBonus
  /\ o.qualityBonus <= QScale \div 2
  /\ InRange(o.convictionGreatMultiplierBase, Dec(135, 10), Dec(175, 10))
  /\ InRange(o.convictionOutlierMultiplierBase, Dec(255, 10), Dec(375, 10))
  /\ InRange(o.convictionMegaOutlierMultiplierBase, Dec(675, 10), Dec(875, 10))

\* C17: for any FundParams, qualityBonus is clamped to [-0.3, 0.5], so the
\* conviction multiplier bases are bounded: great in [13.5, 17.5], outlier in
\* [25.5, 37.5], mega-outlier in [67.5, 87.5].
C17_BasesBounded ==
  \A j \in 1..Len(calib) : BasesBounded(calib[j].outcome)

\* C17 for a fund size that is not negative
C17_BasesBoundedSized ==
  \A j \in 1..Len(calib) :
    calib[j].params.fundSize >= 0 => BasesBounded(calib[j].outcome)

\* both ends of the clamp are met by calibrations of sized funds: one with
\* the bases 13.5, 25.5, 67.5 and one with the bases 17.5, 37.5, 87.5
C17_BothEnds ==
  /\ Len(calib) = 2
  /\ calib[1].params.fundSize >= 0
  /\ calib[1].outcome.convictionGreatMultiplierBase = Dec(175, 10)
  /\ calib[1].outcome.convictionMegaOutlierMultiplierBase = Dec(875, 10)
  /\ calib[2].outcome.convictionGreatMultiplierBase = Dec(135, 10)
  /\ calib[2].outcome.convictionOutlierMultiplierBase = Dec(255, 10)

\* the companies of the running simulateFundOnce, and those selected
Companies == 0..(Len(loc.tractionSignals) - 1)
Selected == {loc.convictionIndices[j] : j \in 1..Len(loc.convictionIndices)}

\* the selection is the top numConviction of the companies by signal
TopBySignal ==
  /\ Selected \subseteq Companies
  /\ Cardinality(Selected) = loc.numConviction
  /\ \A c \in Selected : \A d \in Companies \ Selected :
       FLe(loc.tractionSignals[d + 1], loc.tractionSignals[c + 1])

\* the counts of the result r are the sizes of the two sets
CountsReported(r) ==
  /\ r.convictionCount = Cardinality(Selected)
  /\ r.discoveryOnlyCount = FromInt(Cardinality(Companies \ Selected))
  /\ ~FLt(r.discoveryOnlyCount, FZero)

\* the selection of the run has been made
AfterSelect == pc \in {"conviction", "exits", "irr"}

\* a run has returned and its locals are at hand
AfterRun == pc = "loop" /\ simulations # <<>>

\* C18: in simulateFundOnce exactly numConviction (= targetConvictionCount)
\* of the discovery companies are selected, every selected company's signal
\* is at least that of every non-selected company, the reported
\* convictionCount and discoveryOnlyCount are the sizes of the two sets and
\* discoveryOnlyCount is never negative.
C18_Selection ==
  /\ AfterSelect => TopBySignal
  /\ AfterRun => (TopBySignal /\ CountsReported(simulations[Len(simulations)]))

\* C18 for a graduation rate above 0
C18_SelectionGraduating ==
  /\ (AfterSelect /\ args.params.graduationRate > 0) => TopBySignal
  /\ (AfterRun /\ args.params.graduationRate > 0) =>
       (TopBySignal /\ CountsReported(simulations[Len(simulations)]))

\* a run has returned that selected the two companies of highest signal out
\* of four, and reported the counts 2 and 2
C18_TwoOfFour ==
  /\ AfterRun
  /\ TopBySignal
  /\ CountsReported(simulations[Len(simulations)])
  /\ Cardinality(Selected) = 2
  /\ Cardinality(Companies) = 4

\* the follow-on allocation of the run has been made
AfterAllocate == pc \in {"exits", "irr"} \/ (pc = "loop" /\ simulations # <<>>)

YearsKept ==
  /\ Len(loc.cashFlows) = args.params.fundLife + 1
  /\ ReadAt(loc.cashFlows, 0) = FZero
  /\ \A y \in 1..(Len(loc.cashFlows) - 1) :
       IF y <= 3 THEN FLe(ReadAt(loc.cashFlows, y), FZero)
       ELSE FLe(FZero, ReadAt(loc.cashFlows, y))

\* a pass of the exit loop credits a year y with 4 <= y <= fundLife
ExitYearStep ==
  ExitStep =>
    \E exitYear \in {randInt(rng, 4, args.params.fundLife)} :
      /\ 4 <= exitYear.v
      /\ exitYear.v <= args.params.fundLife

\* C20: in any run of simulateFundOnce every distribution is credited at an
\* exit year y with 4 <= y <= fundLife drawn by randInt(4, fundLife), so
\* debits occupy only years 1-3, credits only years 4..fundLife, and the
\* cash-flow vector keeps length fundLife + 1 with index 0 equal to zero.
C20_ExitYears ==
  /\ [](pc \in {"exits", "irr"} => YearsKept)
  /\ [][ExitYearStep]_vars

\* C20 for a fund life of at least 4 years
C20_ExitYearsLong ==
  /\ []((pc \in {"exits", "irr"} /\ args.params.fundLife >= 4) => YearsKept)
  /\ [][(pc = "exits" /\ args.params.fundLife >= 4) => ExitYearStep]_vars

\* a run of a six-year fund has credited all its four exits, and a year from
\* 4 on holds a credit
C20_Credited ==
  /\ pc = "irr"
  /\ args.params.fundLife = 6
  /\ loc.i = 4
  /\ YearsKept
  /\ \E y \in 4..6 : FLt(FZero, ReadAt(loc.cashFlows, y))

\* the calibration the sampler calls are made with
DrawOutcome == calculateOutcomeParams(DrawParams)

\* the cumulative probabilities the discovery sampler compares its selection
\* draw with, in 1/PScale
DiscoveryCumulative(o) ==
  <<o.discoveryFailRate,
    o.discoveryFailRate + o.discoveryLowReturnRate,
    o.discoveryFailRate + o.discoveryLowReturnRate + o.discoveryMidReturnRate,
    o.discoveryFailRate + o.discoveryLowReturnRate + o.discoveryMidReturnRate
      + o.discoveryHighReturnRate>>

\* the same for the conviction sampler
ConvictionCumulative(o) ==
  <<o.convictionFailRate,
    o.convictionFailRate + o.convictionLowReturnRate,
    o.convictionFailRate + o.convictionLowReturnRate + o.convictionMidReturnRate,
    o.convictionFailRate + o.convictionLowReturnRate + o.convictionMidReturnRate
      + o.convictionGoodReturnRate,
    o.convictionFailRate + o.convictionLowReturnRate + o.convictionMidReturnRate
      + o.convictionGoodReturnRate + o.convictionGreatReturnRate,
    o.convictionFailRate + o.convictionLowReturnRate + o.convictionMidReturnRate
      + o.convictionGoodReturnRate + o.convictionGreatReturnRate
      + o.convictionOutlierRate>>

\* the branch of the selection draw r1: the number of cumulative
\* probabilities that do not exceed it (0 is the fail branch)
BranchOf(r1, cumulative) ==
  Cardinality({j \in 1..Len(cumulative) : ~DrawBelow(r1, cumulative[j], PScale)})

\* lo <= v < hi
InBand(v, lo, hi) == FLe(lo, v) /\ FLt(v, hi)

\* the value v is in the sub-range of branch k of the discovery sampler
DiscoveryBand(k, v) ==
  CASE k = 0 -> v = FZero
    [] k = 1 -> InBand(v, Half, Two)
    [] k = 2 -> InBand(v, Two, FromInt(5))
    [] k = 3 -> InBand(v, FromInt(5), FromInt(10))
    [] k = 4 -> InBand(v, FromInt(10), FromInt(20)) \/ InBand(v, FromInt(20), FromInt(50))

\* the value v is in the sub-range of branch k of the conviction sampler
ConvictionBand(k, v, o) ==
  CASE k = 0 -> v = FZero
    [] k = 1 -> InBand(v, Dec(8, 10), Dec(12, 10))
    [] k = 2 -> InBand(v, Dec(25, 10), FromInt(4))
    [] k = 3 -> InBand(v, FromInt(5), FromInt(10))
    [] k = 4 -> InBand(v, o.convictionGreatMultiplierBase,
                       FAdd(o.convictionGreatMultiplierBase, FromInt(10)))
    [] k = 5 -> InBand(v, o.convictionOutlierMultiplierBase,
                       FAdd(o.convictionOutlierMultiplierBase, FromInt(20)))
    [] k = 6 -> InBand(v, o.convictionMegaOutlierMultiplierBase,
                       FAdd(o.convictionMegaOutlierMultiplierBase, FromInt(75)))

\* C21: sampleDiscoveryOnlyMultiple returns 0 on the fail branch and
\* otherwise a value in [0.5,2), [2,5), [5,10), [10,20) or [20,50);
\* sampleConvictionMultiple returns 0 on the fail branch and otherwise a
\* value in [0.8,1.2), [2.5,4), [5,10), [greatBase, greatBase+10),
\* [outlierBase, outlierBase+20) or [megaBase, megaBase+75); the branch is
\* the first whose cumulative probability exceeds the selection draw, and no
\* sampled multiplier is negative.
C21_SubRanges ==
  /\ (loc.i > 0 /\ loc.op = "discovery") =>
       /\ DiscoveryBand(BranchOf(random(loc.before), DiscoveryCumulative(DrawOutcome)),
                        loc.v)
       /\ FLe(FZero, loc.v)
  /\ (loc.i > 0 /\ loc.op = "conviction") =>
       /\ ConvictionBand(BranchOf(random(loc.before), ConvictionCumulative(DrawOutcome)),
                         loc.v, DrawOutcome)
       /\ FLe(FZero, loc.v)

\* C21 witness: a conviction call took a branch past the first three
\* sub-ranges and returned a value in the sub-range anchored at a calibrated
\* base
C21_Witness ==
  /\ loc.i > 0
  /\ loc.op = "conviction"
  /\ BranchOf(random(loc.before), ConvictionCumulative(DrawOutcome)) >= 4
  /\ FLe(DrawOutcome.convictionGreatMultiplierBase, loc.v)

\* a call of the discovery sampler has taken the outlier branch
OutlierCall ==
  /\ loc.i > 0
  /\ loc.op = "discovery"
  /\ BranchOf(random(loc.before), DiscoveryCumulative(DrawOutcome)) = 4

\* the nested draw of the outlier branch sends the draws below t/10 to the
\* range 10-20 and the others to 20-50
SplitAt(t) ==
  OutlierCall =>
    IF DrawBelow(random(random(loc.before)), t, 10)
    THEN InBand(loc.v, FromInt(10), FromInt(20))
    ELSE InBand(loc.v, FromInt(20), FromInt(50))

\* C22: in the discovery outlier branch the nested uniform draw sends 70% of
\* its mass to the range 10-20 and 30% to the range 20-50.
C22_Split7030 == SplitAt(7)

\* the split the code makes: the draws below 0.3 go to 10-20, the draws from
\* 0.3 on to 20-50
C22_Split3070 == SplitAt(3)

\* an outlier call whose nested draw is in [0.3, 0.7) has returned a value in
\* the range 20-50
C22_MiddleDraw ==
  /\ OutlierCall
  /\ ~DrawBelow(random(random(loc.before)), 3, 10)
  /\ DrawBelow(random(random(loc.before)), 7, 10)
  /\ InBand(loc.v, FromInt(20), FromInt(50))

\* the selection draw of the sampled calls is at least 1 - rate
DrawAtLeastOneMinus(rate) ==
  rate # NaNp /\ ~DrawBelow(random(loc.before), PScale - rate, PScale)

\* the discovery call took its outlier branch: the only one of three draws
DiscoveryOutlierReached == loc.discovery.rng = LcgSteps(loc.before, 3)

\* the conviction call took its mega-outlier branch: the value is at or above
\* that base, which no other sub-range reaches, or is no number
MegaOutlierReached ==
  \/ IsNaN(loc.conviction.v)
  \/ FLe(loc.o.convictionMegaOutlierMultiplierBase, loc.conviction.v)

\* C23: in both samplers the final branch receives exactly the leftover
\* probability mass: a selection draw r reaches the discovery outlier branch
\* iff r >= 1 - discoveryOutlierRate, and the conviction mega-outlier branch
\* iff r >= 1 - convictionMegaOutlierRate, for every calibrated OutcomeParams.
C23_LeftoverMass ==
  loc.i = 1 =>
    /\ DiscoveryOutlierReached <=> DrawAtLeastOneMinus(loc.o.discoveryOutlierRate)
    /\ MegaOutlierReached <=> DrawAtLeastOneMinus(loc.o.convictionMegaOutlierRate)

\* C23 for the calibrations of the last sampled calls whose rates are numbers
C23_LeftoverMassNumbers ==
  (loc.i = 1 /\ loc.o.convictionMegaOutlierRate # NaNp) =>
    /\ DiscoveryOutlierReached <=> DrawAtLeastOneMinus(loc.o.discoveryOutlierRate)
    /\ MegaOutlierReached <=> DrawAtLeastOneMinus(loc.o.convictionMegaOutlierRate)

\* with one selection draw the discovery call reached its outlier branch and
\* the conviction call did not reach its mega-outlier branch
C23_BetweenThresholds ==
  /\ loc.i = 1
  /\ DiscoveryOutlierReached
  /\ ~MegaOutlierReached
  /\ ~DrawAtLeastOneMinus(loc.o.convictionMegaOutlierRate)

\* the locals l of a run with the discovery outcome of every selected company
\* replaced by x: a run that agrees on the selection and on the conviction
\* draws and differs in those outcomes
OtherDiscovery(l, x) ==
  [l EXCEPT !.discoveryOutcomes =
     [j \in 1..Len(l.discoveryOutcomes) |->
        IF \E k \in 1..Len(l.convictionIndices) : l.convictionIndices[k] = j - 1
        THEN x ELSE l.discoveryOutcomes[j]]]

\* the exit of a selected company credits the cash flows and the gross total
\* with the same amount in the run and in every run that differs in the
\* selected companies' discovery outcomes
SameCreditStep ==
  (ExitStep /\ loc.i \in Selected) =>
    \A x \in {FZero, FromInt(7), FromInt(35)} :
      /\ distribution(args.params, OtherDiscovery(loc, x), loc.i)
           = distribution(args.params, loc, loc.i)
      /\ loc'.totalDistGross =
           FAdd(loc.totalDistGross,
                distribution(args.params, OtherDiscovery(loc, x), loc.i))
      /\ \E y \in 0..(Len(loc'.cashFlows) - 1) :
           loc'.cashFlows =
             WriteAt(loc.cashFlows, y,
                     FAdd(ReadAt(loc.cashFlows, y),
                          distribution(args.params, OtherDiscovery(loc, x), loc.i)))

\* C24: for a company selected into conviction the discovery-phase outcome
\* influences only the ranking: two runs that agree on the selected set and
\* on the conviction draws but differ in the selected companies' discovery
\* outcomes credit the same distributions, and a selected company's
\* discovery outcome is never credited to the cash flows.
C24_RankingOnly == [][SameCreditStep]_vars

\* C24 witness: all exits of a run are credited, a selected company had a
\* discovery outcome above 0 and a conviction outcome of 0, and nothing at
\* all was distributed
C24_Witness ==
  /\ pc = "irr"
  /\ \E c \in Selected :
       /\ FLt(FZero, loc.discoveryOutcomes[c + 1])
       /\ loc.convictionOutcomes[c] = FZero
  /\ loc.totalDistGross = FZero

\* the carry of the result r is max(totalDistGross - totalCalled, 0) x carry,
\* not negative, and 0 when the distributions do not exceed the capital called
CarryOnProfit(r, carry) ==
  /\ r.carryPaid = FMul(FMax(FSub(r.totalDistGross, r.totalCalled), FZero), carry)
  /\ FLe(FZero, r.carryPaid)
  /\ FLe(r.totalDistGross, r.totalCalled) => r.carryPaid = FZero

\* the net figures of the result r follow from the gross ones and the carry
NetOfCarry(r) ==
  /\ r.totalDistNet = FSub(r.totalDistGross, r.carryPaid)
  /\ FLe(r.netTvpi, r.grossTvpi)
  /\ r.dpiGross = r.grossTvpi
  /\ r.dpiNet = r.netTvpi

\* the vector cf handed to the solver is the gross vector of the run with
\* carryPaid taken off the final year, and nothing else changed
NetVector ==
  /\ Len(cf) = Len(loc.cashFlows)
  /\ \A t \in 0..(Len(cf) - 1) :
       ReadAt(cf, t) = IF t = args.params.fundLife
                       THEN FSub(ReadAt(loc.cashFlows, t), loc.carryPaid)
                       ELSE ReadAt(loc.cashFlows, t)

\* C25: in every SimulationResult with 0 <= carry <= 1, carryPaid =
\* max(totalDistGross - totalCalled, 0) x carry is non-negative and 0 whenever
\* distributions do not exceed called capital; totalDistNet = totalDistGross
\* - carryPaid; netTvpi <= grossTvpi; dpiGross = grossTvpi and dpiNet =
\* netTvpi; and the net cash-flow vector passed to the IRR solver differs
\* from the gross vector only at the final year, by -carryPaid.
C25_CarryAndNet ==
  /\ pc = "irr" => NetVector
  /\ (pc = "loop" /\ simulations # <<>>) =>
       /\ NetVector
       /\ \A j \in 1..Len(simulations) :
            /\ CarryOnProfit(simulations[j], Dec(args.params.carry, 100))
            /\ NetOfCarry(simulations[j])

\* C25 for the runs that called capital
C25_CarryAndNetCalled ==
  /\ pc = "irr" => NetVector
  /\ (pc = "loop" /\ simulations # <<>>) =>
       /\ NetVector
       /\ \A j \in 1..Len(simulations) :
            FLt(FZero, simulations[j].totalCalled) =>
              /\ CarryOnProfit(simulations[j], Dec(args.params.carry, 100))
              /\ NetOfCarry(simulations[j])

\* C25 witness: a run has returned with a profit, a carry above 0 taken off
\* the final year and a net TVPI below the gross TVPI
C25_Witness ==
  /\ pc = "loop"
  /\ simulations # <<>>
  /\ NetVector
  /\ FLt(FZero, simulations[Len(simulations)].carryPaid)
  /\ FLt(simulations[Len(simulations)].netTvpi, simulations[Len(simulations)].grossTvpi)
  /\ CarryOnProfit(simulations[Len(simulations)], Dec(args.params.carry, 100))

\* whether a and b are both above zero or both below zero
SameStrictSign(a, b) ==
  \/ FLt(FZero, a) /\ FLt(FZero, b)
  \/ FLt(a, FZero) /\ FLt(b, FZero)

\* the bracket of st lies within [-0.99, 5.0] and holds no two ends of one
\* strict sign
Bracketed(flows, st) ==
  /\ FLe(BisectLow, st.low)
  /\ FLe(st.low, st.high)
  /\ FLe(st.high, BisectHigh)
  /\ ~SameStrictSign(Npv(flows, st.low), Npv(flows, st.high))

\* an iteration of the bisection that moved an end: the new bracket is
\* bracketed, half as wide as the old one (to 1e-6, the rounding of the
\* halving), and the 100th iteration is the last
BisectIteration ==
  (irr.ph = "bisect" /\ irr'.i = irr.i + 1) =>
    /\ Bracketed(cf, irr')
    /\ Near(FSub(irr'.high, irr'.low),
            FDiv(FSub(irr.high, irr.low), Two), tolerance)
    /\ irr'.i <= maxIterations
    /\ (irr'.i = maxIterations <=> irr'.ph = "done")

\* C26: binarySearchIRR reports NaN exactly when NPV(-0.99) and NPV(5.0) have
\* the same strict sign: a NaN result comes with ends of one sign, and the
\* loop is entered, and ends in a number, only with ends not of one sign.
\* After every iteration of the loop -0.99 <= low <= high <= 5.0, the width
\* of the bracket is halved, NPV(low) and NPV(high) are not of one strict
\* sign, and there are at most 100 iterations.
C26_Bisection ==
  /\ [](pc = "irr" =>
          /\ (irr.ph = "done" /\ IsNaN(irr.res)) =>
               SameStrictSign(Npv(cf, BisectLow), Npv(cf, BisectHigh))
          /\ irr.ph = "bisect" =>
               /\ ~SameStrictSign(Npv(cf, BisectLow), Npv(cf, BisectHigh))
               /\ Bracketed(cf, irr)
               /\ irr.i < maxIterations)
  /\ [][/\ BisectIteration
        /\ (irr.ph = "bisect" /\ irr'.ph = "done") => ~IsNaN(irr'.res)]_vars

\* C26 witness: the bisection is some iterations in, both ends of the
\* bracket have moved, and NPV is below zero at low and above zero at high.
C26_Witness ==
  /\ pc = "irr"
  /\ irr.ph = "bisect"
  /\ irr.i >= 3
  /\ FLt(BisectLow, irr.low)
  /\ FLt(irr.high, BisectHigh)
  /\ FLt(Npv(cf, irr.low), FZero)
  /\ FLt(FZero, Npv(cf, irr.high))

\* the bisection ran its 100 iterations and ended in a number, as it does in
\* simulateFundOnce on a vector with a NaN entry
C26_AllIterations ==
  pc = "irr" /\ irr.ph = "done" /\ irr.i = maxIterations /\ ~IsNaN(irr.res)

\* the locals of simulateFundOnce as the cash-flow vector has been built and
\* debited, before any exit is credited
JustAllocated == pc = "exits" /\ loc.i = 0

\* the follow-on capital the exit loop counts as invested: followOnCheckSize
\* for every company in followOnIndices
FollowOnGiven ==
  FMul(FromInt(Cardinality(loc.followOnIndices)), loc.followOnCheckSize)

\* the follow-on capital debited from the cash flows of years 2 and 3
FollowOnDebited ==
  FNeg(FAdd(ReadAt(loc.cashFlows, 2), ReadAt(loc.cashFlows, 3)))

FollowOnConserved ==
  /\ FromInt(Cardinality(loc.followOnIndices)) = loc.numFollowOn
  /\ Near(FollowOnGiven, FollowOnDebited, tolerance)

\* C27: the capital given to companies as follow-on equals the capital
\* debited for follow-on: as many companies receive a follow-on check as
\* followOnCount reports, and recipients x followOnCheckSize equals the
\* reserve debited in years 2 and 3, for every FundParams.
C27_FollowOnConserved == JustAllocated => FollowOnConserved

\* the same where the cash-flow vector has the years 1 to 3 and numFollowOn
\* is a count of at most the conviction companies there are
C27_FollowOnConservedWithin ==
  (/\ JustAllocated
   /\ args.params.fundLife >= 3
   /\ FLe(FZero, loc.numFollowOn)
   /\ FLe(loc.numFollowOn, FromInt(Cardinality(Selected)))) => FollowOnConserved

\* a follow-on reserve of the whole investable capital: three follow-on checks
\* are counted and sized for two conviction companies
C27_ReserveBeyondPortfolio ==
  /\ JustAllocated
  /\ args.params.followOnReservePercent = 100
  /\ loc.numFollowOn = FromInt(3)
  /\ Cardinality(loc.followOnIndices) = 2
  /\ FLt(FollowOnGiven, FMul(FollowOnDebited, Dec(7, 10)))

\* C28: the capital called never exceeds the capital available after fees:
\* totalCalled <= investableCapital = fundSize - totalFees, and the year-1
\* debit of the discovery and conviction checks never exceeds
\* deployableCapital = investableCapital - followOnReserve.
C28_CalledWithinCapital ==
  /\ JustAllocated =>
       FLe(FNeg(ReadAt(loc.cashFlows, 1)), deployableCapital(args.params))
  /\ pc = "irr" =>
       FLe(totalCalled(loc.cashFlows), investableCapital(args.params))

\* the same where the cash-flow vector has the years 1 to 3 and the
\* early-stage total is within the deployable capital (a capital utilization
\* of at most 1 on the page)
C28_CalledWithinBudget ==
  (/\ pc \in {"exits", "irr"}
   /\ args.params.fundLife >= 3
   /\ FLe(FZero, loc.discoveryTotal)
   /\ FLe(FAdd(loc.discoveryTotal, loc.convictionTotal),
          deployableCapital(args.params))) => C28_CalledWithinCapital

\* early-stage checks of 320 are debited in a fund of 250 with a reserve of 20%
C28_OverBudget ==
  /\ JustAllocated
  /\ args.params.discoveryCheckSize = 50
  /\ FNeg(ReadAt(loc.cashFlows, 1)) = FromInt(320)
  /\ FLt(deployableCapital(args.params), FromInt(250))

\* p.fundSize !== q.fundSize, the one field in which params of the page differ
Differ(p, q) == ~(FLe(p.fundSize, q.fundSize) /\ FLe(q.fundSize, p.fundSize))

\* C29: after any interleaving of parameter edits, changes of the simulation
\* count and simulation runs, edits during the 50 ms deferral included, the
\* displayed results are flagged stale exactly when the current params or
\* numSimulations differ from the ones the displayed results were computed
\* with.
C29_StaleExact ==
  (pc = "page" /\ loc.results # <<>>) =>
    (isResultsStale(loc) <=>
       \/ Differ(loc.params, loc.results[1].params)
       \/ loc.numSimulations # loc.results[1].numSimulations)

\* C29 witness: results are displayed and not stale while a run is deferred
\* whose params and count are no longer those of the page: both were edited
\* after the click
C29_EditedWhileDeferred ==
  /\ pc = "page"
  /\ loc.results # <<>>
  /\ ~isResultsStale(loc)
  /\ loc.timeouts # <<>>
  /\ Differ(loc.params, Head(loc.timeouts).params)
  /\ loc.numSimulations # Head(loc.timeouts).numSimulations

\* results computed with a fundSize of 0 are displayed and the fundSize is
\* now -0, which JSON.stringify writes as 0
C29_SignedZero ==
  /\ pc = "page"
  /\ loc.results # <<>>
  /\ loc.results[1].params.fundSize = FZero
  /\ loc.params.fundSize = SignedZero(-1)
  /\ ~isResultsStale(loc)

\* the database is connected and no handler awaits a response
Quiescent == pc = "page" /\ loc.dbConnected /\ loc.awaiting = {}

\* every row of the database is in the investments list as it is stored
Mirrored ==
  \A k \in 1..Len(loc.rows) :
    \E j \in 1..Len(loc.investments) : loc.investments[j] = loc.rows[k]

\* C30: no investment update is lost: after any interleaving of
\* handleAddInvestment, handleUpdateInvestment, handleDeleteInvestment and
\* handleAddValuation calls whose API requests overlap, every investment
\* whose add completed and that was not deleted is in the investments list,
\* and every completed update is reflected in it.
C30_NoLostUpdate == Quiescent => Mirrored

\* the same where no handler was called while another awaited its response
C30_NoLostUpdateInTurn == (Quiescent /\ ~loc.overlapped) => Mirrored

\* two calls of handleAddInvestment overlapped and both were served: the
\* database holds three investments and the list two
C30_TwoAdds ==
  /\ Quiescent
  /\ loc.calls = 2
  /\ Len(loc.rows) = 3
  /\ Len(loc.investments) = 2

====
